---- MODULE Spec2Model ----
(***************************************************************************)
(* Verification model of the RotatingSphere demo collection:               *)
(*   - model_rendering_viewport.cpp : the 3D model viewer/editor           *)
(*   - src/main.cpp                 : the rolling-ball game                *)
(*   - src/rotating_cube_1.cpp      : the rotating-sphere demo             *)
(*   - src/load_obj_model.cpp       : the OBJ house viewer                 *)
(*   - src/sdl_rotating_cube.cpp    : the SDL cube demo (its Vec3 only)    *)
(* Floating-point quantities are fixed-point integers in units of 1/1000   *)
(* (Unit); divisions truncate toward zero.                                 *)
(***************************************************************************)
EXTENDS Integers, Sequences, FiniteSets, TLC

VARIABLES
    \* ---- which executable (or function under test) this behaviour follows
    program,
    \* ---- procedural mesh generators (viewer and game)
    meshKind, meshSegments, meshOut,
    \* ---- model viewer (model_rendering_viewport.cpp)
    vpc, objects, selectedObjectIndex, cameraDistance, cameraTarget,
    glVaos, glBufs, relVaos, relBufs, doubleFree, glOther, lastOp, steps,
    \* ---- OBJLoader::loadOBJ called on a target mesh (load_obj_model.cpp)
    objFile, objBefore, objMesh, objRet,
    \* ---- house viewer (load_obj_model.cpp main)
    hpc, houseMesh, objLoaded, loadFailed, houseFrames,
    \* ---- rotating-sphere demo (rotating_cube_1.cpp main)
    spc, sphereParams, sphereMeshOf, showImGui, sphereHandles,
    sphereGen, sphereLive, sphereFrames, sphereTime,
    \* ---- Terrain::getHeight called on a terrain (main.cpp)
    tQuery, tHeight,
    \* ---- rolling-ball game (main.cpp main)
    gpc, game, loop, gLast,
    \* ---- Game::update called on a game in play (main.cpp)
    arena, arenaMid, arenaCalls,
    \* ---- Mat4::operator* called on two matrices (main.cpp)
    mpc, matA, matB, matAB, matPoint, matImage, matObstacle,
    \* ---- Vec3::normalize called on a vector (main.cpp, load_obj_model.cpp, sdl_rotating_cube.cpp)
    nImpl, nIn, nOut,
    \* ---- the public methods of Game called in any order (main.cpp)
    api, apiBefore, apiCall, apiCalls,
    \* ---- the mouse in the model viewer (model_rendering_viewport.cpp)
    isMouseDragging, dragButton, isViewportHovered, lastMousePos, cameraYaw, cameraPitch, buttonsHeld, cursor

meshVars == <<meshKind, meshSegments, meshOut>>
viewerVars == <<vpc, objects, selectedObjectIndex, cameraDistance, cameraTarget,
                glVaos, glBufs, relVaos, relBufs, doubleFree, glOther, lastOp, steps>>
objVars == <<objFile, objBefore, objMesh, objRet>>
houseVars == <<hpc, houseMesh, objLoaded, loadFailed, houseFrames>>
sphereVars == <<spc, sphereParams, sphereMeshOf, showImGui, sphereHandles,
                sphereGen, sphereLive, sphereFrames, sphereTime>>
terrainVars == <<tQuery, tHeight>>
gameVars == <<gpc, game, loop, gLast>>
arenaVars == <<arena, arenaMid, arenaCalls>>
matVars == <<mpc, matA, matB, matAB, matPoint, matImage, matObstacle>>
vecVars == <<nImpl, nIn, nOut>>
apiVars == <<api, apiBefore, apiCall, apiCalls>>
mouseVars == <<isMouseDragging, dragButton, isViewportHovered, lastMousePos, cameraYaw, cameraPitch, buttonsHeld, cursor>>
vars == <<program, meshVars, viewerVars, objVars, houseVars, sphereVars,
          terrainVars, gameVars, arenaVars, matVars, vecVars, apiVars, mouseVars>>

\* The repository builds separate executables; a behaviour follows one of
\* them (or one function under test) from its first step on.
Runs(p) ==
    /\ program \in {"none", p}
    /\ program' = p

\* What each program leaves alone: the state of the other programs
OutsideMesh == <<viewerVars, objVars, houseVars, sphereVars, terrainVars, gameVars, arenaVars,
    matVars, vecVars, apiVars, mouseVars>>
OutsideViewer == <<meshVars, objVars, houseVars, sphereVars, terrainVars, gameVars, arenaVars,
    matVars, vecVars, apiVars, mouseVars>>
OutsideObj == <<meshVars, viewerVars, houseVars, sphereVars, terrainVars, gameVars, arenaVars,
    matVars, vecVars, apiVars, mouseVars>>
OutsideHouse == <<meshVars, viewerVars, objVars, sphereVars, terrainVars, gameVars, arenaVars,
    matVars, vecVars, apiVars, mouseVars>>
OutsideSphere == <<meshVars, viewerVars, objVars, houseVars, terrainVars, gameVars, arenaVars,
    matVars, vecVars, apiVars, mouseVars>>
OutsideTerrain == <<meshVars, viewerVars, objVars, houseVars, sphereVars, gameVars, arenaVars,
    matVars, vecVars, apiVars, mouseVars>>
OutsideGame == <<meshVars, viewerVars, objVars, houseVars, sphereVars, terrainVars, arenaVars,
    matVars, vecVars, apiVars, mouseVars>>
OutsideArena == <<meshVars, viewerVars, objVars, houseVars, sphereVars, terrainVars, gameVars,
    matVars, vecVars, apiVars, mouseVars>>
OutsideMat == <<meshVars, viewerVars, objVars, houseVars, sphereVars, terrainVars, gameVars,
    arenaVars, vecVars, apiVars, mouseVars>>
OutsideVec == <<meshVars, viewerVars, objVars, houseVars, sphereVars, terrainVars, gameVars, arenaVars, matVars, apiVars, mouseVars>>
OutsideApi == <<meshVars, viewerVars, objVars, houseVars, sphereVars, terrainVars, gameVars, arenaVars, matVars, vecVars, mouseVars>>
OutsideMouse == <<meshVars, objVars, houseVars, sphereVars, terrainVars, gameVars, arenaVars, matVars, vecVars, apiVars>>

-----------------------------------------------------------------------------
(* Bounds of the model *)
MaxSegments == 36
MaxObjects == 7
MaxSteps == 3
MaxObjLines == 3
MaxPos == 2
MaxFrames == 3
MaxSeed == 1
MaxGameSeed == 0
MaxGameFrames == 5
MaxUpdates == 2
MaxApiCalls == 3

(* Fixed-point unit: 1.0f == Unit *)
Unit == 10 * 10 * 10

(* Default segment count of createSphere/createCylinder/createCone *)
DefaultSegments == 32

(* Default size of a Terrain, and the size resetGame asks for *)
TerrainWidth == 100
TerrainDepth == 200

-----------------------------------------------------------------------------
(* Helpers *)
Max2(a, b) == IF a >= b THEN a ELSE b
Min2(a, b) == IF a <= b THEN a ELSE b
Abs(a) == IF a < 0 THEN -a ELSE a
\* C++ integer / float-to-int conversion: truncation toward zero
TruncDiv(a, b) == IF (a >= 0) = (b > 0) THEN Abs(a) \div Abs(b) ELSE -(Abs(a) \div Abs(b))
SetMax(S) == CHOOSE m \in S : \A s \in S : s <= m
\* A local variable: x is evaluated once and F applied to its value
Bind(x, F(_)) == CHOOSE r \in {F(v) : v \in {x}} : TRUE

\* A sequence made of n triples, Triple(i) being the three indices pushed
\* by iteration i (0-based) of an index loop
TripleLoop(n, Triple(_)) ==
    [k \in 1..(3 * n) |-> Triple((k - 1) \div 3)[((k - 1) % 3) + 1]]
\* A sequence made of n groups of six indices (two triangles per iteration)
HexLoop(n, Hex(_)) ==
    [k \in 1..(6 * n) |-> Hex((k - 1) \div 6)[((k - 1) % 6) + 1]]

-----------------------------------------------------------------------------
(* Procedural mesh generators.  A mesh is its vertex count and index list. *)

CubeIndices ==
    << 0, 1, 2, 2, 3, 0,
       4, 5, 6, 6, 7, 4,
       8, 9, 10, 10, 11, 8,
       12, 13, 14, 14, 15, 12,
       16, 17, 18, 18, 19, 16,
       20, 21, 22, 22, 23, 20 >>

\* viewer createCube: 24 vertices, 36 indices
createCube == [vertexCount |-> 24, indices |-> CubeIndices]

\* viewer createPlane: 4 vertices, 6 indices
createPlane == [vertexCount |-> 4, indices |-> <<0, 1, 2, 2, 3, 0>>]

\* viewer createCylinder: two centre vertices, then FOUR vertices per loop
\* iteration i = 0..segments; the index loops address them with stride 6
createCylinder(segments) ==
    LET top(i) == <<0, 2 + i * 6, 2 + ((i + 1) % segments) * 6>>
        bottom(i) == <<1, 2 + ((i + 1) % segments) * 6 + 2, 2 + i * 6 + 2>>
        side(i) ==
            LET topLeft == 2 + i * 6 + 4
                topRight == 2 + ((i + 1) % segments) * 6 + 4
                bottomLeft == 2 + i * 6 + 5
                bottomRight == 2 + ((i + 1) % segments) * 6 + 5
            IN <<topLeft, bottomLeft, topRight, topRight, bottomLeft, bottomRight>>
    IN [vertexCount |-> (6 * (2 + 4 * (segments + 1))) \div 6,
        indices |-> TripleLoop(segments, top) \o TripleLoop(segments, bottom)
                    \o HexLoop(segments, side)]

\* viewer createCone: two centre vertices, then three vertices per iteration
createCone(segments) ==
    LET bottom(i) == <<1, 2 + ((i + 1) % segments) * 3, 2 + i * 3>>
        side(i) == <<2 + i * 3 + 1, 2 + ((i + 1) % segments) * 3 + 1, 2 + i * 3 + 2>>
    IN [vertexCount |-> (6 * (2 + 3 * (segments + 1))) \div 6,
        indices |-> TripleLoop(segments, bottom) \o TripleLoop(segments, side)]

\* game generateCube: 24 vertices, the same 36 indices
generateCube == [vertexCount |-> 24, indices |-> CubeIndices]

\* game generateCylinder: two vertices per iteration i = 0..segments
generateCylinder(segments) ==
    LET side(i) ==
            LET base == i * 2
            IN <<base, base + 1, base + 2, base + 2, base + 1, base + 3>>
    IN [vertexCount |-> 2 * (segments + 1),
        indices |-> HexLoop(segments, side)]

\* game generatePyramid: 5 vertices, 18 indices
generatePyramid ==
    [vertexCount |-> 5,
     indices |-> <<0, 1, 2, 2, 3, 0, 0, 1, 4, 1, 2, 4, 2, 3, 4, 3, 0, 4>>]

GeneratorKinds ==
    {"createCube", "createPlane", "createCylinder", "createCone",
     "generateCube", "generateCylinder", "generatePyramid"}
SegmentedKinds == {"createCylinder", "createCone", "generateCylinder"}

RunGenerator(kind, segments) ==
    CASE kind = "createCube" -> createCube
      [] kind = "createPlane" -> createPlane
      [] kind = "createCylinder" -> createCylinder(segments)
      [] kind = "createCone" -> createCone(segments)
      [] kind = "generateCube" -> generateCube
      [] kind = "generateCylinder" -> generateCylinder(segments)
      [] kind = "generatePyramid" -> generatePyramid

EmptyMesh == [vertexCount |-> 0, indices |-> <<>>]

InitMesh ==
    /\ meshKind = "none"
    /\ meshSegments = 0
    /\ meshOut = EmptyMesh

\* One call of a generator without a segment parameter
GenerateFixed ==
    \E kind \in GeneratorKinds \ SegmentedKinds :
        /\ meshKind' = kind
        /\ meshSegments' = 0
        /\ meshOut' = RunGenerator(kind, 0)
        /\ Runs("generators") /\ UNCHANGED OutsideMesh

\* One call of a generator with a segment count >= 3
GenerateSegmented ==
    \E kind \in SegmentedKinds, segments \in 3..MaxSegments :
        /\ meshKind' = kind
        /\ meshSegments' = segments
        /\ meshOut' = RunGenerator(kind, segments)
        /\ Runs("generators") /\ UNCHANGED OutsideMesh

-----------------------------------------------------------------------------
(* The model viewer: OpenGL object names.                                  *)
(* glGen* returns a name that is not in use; which one is the driver's     *)
(* choice.  Two drivers are modelled: one hands out the lowest name not in *)
(* use (released names are reused), one a name never used before.          *)

HighWater(live, rel) == SetMax(live \cup rel \cup {0})
SetMin(S) == CHOOSE m \in S : \A s \in S : m <= s
GenName(live, rel, reuse) ==
    IF reuse THEN SetMin({n \in 1..(HighWater(live, rel) + 1) : n \notin live})
    ELSE HighWater(live, rel) + 1

Vec3(x, y, z) == <<x, y, z>>
VecAdd(a, b) == <<a[1] + b[1], a[2] + b[2], a[3] + b[3]>>
VecSub(a, b) == <<a[1] - b[1], a[2] - b[2], a[3] - b[3]>>
VecHalf(a) == <<TruncDiv(a[1], 2), TruncDiv(a[2], 2), TruncDiv(a[3], 2)>>
MaxComp(a) == Max2(Max2(a[1], a[2]), a[3])

PrimitiveTypes == {"Cube", "Sphere", "Cylinder", "Cone", "Plane"}
\* The Create menu items the model clicks
MenuTypes == {"Cone", "Plane"}

\* createSphere(segments): (segments+1)^2 vertices, 6*segments^2 indices
createSphereCounts(segments) ==
    [vertexCount |-> (segments + 1) * (segments + 1),
     indexCount |-> 6 * segments * segments]

DefaultCylinder == createCylinder(DefaultSegments)
DefaultCone == createCone(DefaultSegments)

\* vertexCount/indexCount/bbox stored by createCube, createSphere, ...
PrimitiveData(type) ==
    LET half == Unit \div 2
        unitBox == [bboxMin |-> Vec3(-half, -half, -half), bboxMax |-> Vec3(half, half, half)]
        counts(mesh) == Bind(mesh, LAMBDA m :
                            [vertexCount |-> m.vertexCount, indexCount |-> Len(m.indices)])
    IN CASE type = "Sphere" -> createSphereCounts(DefaultSegments) @@ unitBox
         [] type = "Cylinder" -> counts(DefaultCylinder) @@ unitBox
         [] type = "Cone" -> counts(DefaultCone) @@ unitBox
         [] type = "Plane" -> counts(createPlane) @@
                [bboxMin |-> Vec3(-Unit, 0, -Unit), bboxMax |-> Vec3(Unit, 0, Unit)]
         [] OTHER -> counts(createCube) @@ unitBox

\* GameObject() constructor
NewGameObject ==
    [name |-> <<"Unnamed Object", 0>>, color |-> "grey",
     vao |-> 0, vbo |-> 0, ebo |-> 0, vertexCount |-> 0, indexCount |-> 0,
     bboxMin |-> Vec3(-(Unit \div 2), -(Unit \div 2), -(Unit \div 2)),
     bboxMax |-> Vec3(Unit \div 2, Unit \div 2, Unit \div 2),
     position |-> Vec3(0, 0, 0),
     \* the normals in the vertex buffer: those of the generator ("mesh"), of
     \* the OBJ file ("file"), or the constant (0, 1, 0) ("up")
     normals |-> "mesh"]

\* The viewer's globals as one value
ViewerState ==
    [objects |-> objects, sel |-> selectedObjectIndex,
     dist |-> cameraDistance, target |-> cameraTarget,
     vaos |-> glVaos, bufs |-> glBufs]

\* The triples <<vao, vbo, ebo>> that glGenVertexArrays, glGenBuffers,
\* glGenBuffers, called in this order in state s, can return
GenTriples(s) ==
    { Bind(GenName(s.bufs, relBufs, reuse), LAMBDA b1 :
          <<GenName(s.vaos, relVaos, reuse), b1,
            GenName(s.bufs \cup {b1}, relBufs \cup {b1}, reuse)>>)
      : reuse \in BOOLEAN }

\* createCube/createSphere/createCylinder/createCone/createPlane: a new
\* object with its own buffers is pushed onto the object list
createShape(s, type, h) ==
    Bind(PrimitiveData(type), LAMBDA d :
        LET obj == [NewGameObject EXCEPT !.vao = h[1], !.vbo = h[2], !.ebo = h[3],
                        !.vertexCount = d.vertexCount, !.indexCount = d.indexCount,
                        !.bboxMin = d.bboxMin, !.bboxMax = d.bboxMax]
        IN [s EXCEPT !.objects = Append(s.objects, obj),
                     !.vaos = s.vaos \cup {h[1]},
                     !.bufs = s.bufs \cup {h[2], h[3]}])

autoCenterSelectedModel(state) ==
    Bind(state, LAMBDA s :
        IF s.sel >= 0 /\ s.sel < Len(s.objects)
        THEN Bind(s.objects[s.sel + 1], LAMBDA obj :
                 Bind(MaxComp(VecSub(obj.bboxMax, obj.bboxMin)), LAMBDA maxSize :
                     [s EXCEPT !.target = obj.position,
                               !.dist = Max2(3 * Unit, maxSize * 2)]))
        ELSE s)

centerAllModels(state) ==
    Bind(state, LAMBDA s :
        IF s.objects = <<>> THEN s
        ELSE LET idx == 1..Len(s.objects)
                 lo(c) == SetMin({s.objects[i].bboxMin[c] + s.objects[i].position[c] : i \in idx})
                 hi(c) == SetMax({s.objects[i].bboxMax[c] + s.objects[i].position[c] : i \in idx})
             IN Bind(Vec3(lo(1), lo(2), lo(3)), LAMBDA bmin :
                    Bind(Vec3(hi(1), hi(2), hi(3)), LAMBDA bmax :
                        [s EXCEPT !.target = VecHalf(VecAdd(bmin, bmax)),
                                  !.dist = Max2(5 * Unit, MaxComp(VecSub(bmax, bmin)) * 2)])))

\* createPrimitive(type, color)
createPrimitive(s, type, color, h) ==
    Bind(createShape(s, type, h), LAMBDA s1 :
        Bind(s1.objects[Len(s1.objects)], LAMBDA back :
            LET obj == [NewGameObject EXCEPT !.color = color,
                            !.vao = back.vao, !.vbo = back.vbo, !.ebo = back.ebo,
                            !.vertexCount = back.vertexCount,
                            !.indexCount = back.indexCount,
                            !.bboxMin = back.bboxMin, !.bboxMax = back.bboxMax,
                            !.name = <<type, Len(s1.objects) + 1>>]
            IN autoCenterSelectedModel([s1 EXCEPT !.objects = Append(s1.objects, obj),
                                                  !.sel = Len(s1.objects)])))

\* The bookkeeping of glDelete*: releasing a name that is not live is a
\* second release of it.  A value of [live, rel, twice].
glDeleteName(table, n) ==
    Bind(table, LAMBDA g :
        IF n = 0 THEN g
        ELSE IF n \in g.live
             THEN [g EXCEPT !.live = g.live \ {n}, !.rel = g.rel \cup {n}]
             ELSE [g EXCEPT !.twice = TRUE])

\* if (obj->vao) glDeleteVertexArrays; if (obj->vbo) glDeleteBuffers;
\* if (obj->ebo) glDeleteBuffers -- on a value [va, bu] of two name tables
deleteObjectBuffers(tables, obj) ==
    Bind(tables, LAMBDA g :
        [va |-> glDeleteName(g.va, obj.vao),
         bu |-> glDeleteName(glDeleteName(g.bu, obj.vbo), obj.ebo)])

RECURSIVE deleteAllBuffers(_, _)
\* for (auto& obj : objects) { glDelete... }
deleteAllBuffers(g, objs) ==
    IF objs = <<>> THEN g
    ELSE deleteAllBuffers(deleteObjectBuffers(g, Head(objs)), Tail(objs))

GlTables ==
    [va |-> [live |-> glVaos, rel |-> relVaos, twice |-> FALSE],
     bu |-> [live |-> glBufs, rel |-> relBufs, twice |-> FALSE]]

RemoveAt(seq, i) == [k \in 1..(Len(seq) - 1) |-> IF k < i THEN seq[k] ELSE seq[k + 1]]

SetViewer(state) ==
    \E s \in {state} :
    /\ objects' = s.objects
    /\ selectedObjectIndex' = s.sel
    /\ cameraDistance' = s.dist
    /\ cameraTarget' = s.target
    /\ glVaos' = s.vaos
    /\ glBufs' = s.bufs

SetTables(tables) ==
    \E g \in {tables} :
    /\ glVaos' = g.va.live
    /\ relVaos' = g.va.rel
    /\ glBufs' = g.bu.live
    /\ relBufs' = g.bu.rel
    /\ doubleFree' = (doubleFree \/ g.va.twice \/ g.bu.twice)

NoOp == [op |-> "none", ret |-> TRUE]

InitViewer ==
    /\ vpc = "startup"
    /\ objects = <<>>
    /\ selectedObjectIndex = -1
    /\ cameraDistance = 10 * Unit
    /\ cameraTarget = Vec3(0, 0, 0)
    /\ glVaos = {}
    /\ glBufs = {}
    /\ relVaos = {}
    /\ relBufs = {}
    /\ doubleFree = FALSE
    /\ glOther = [gen |-> {}, live |-> {}]
    /\ lastOp = NoOp
    /\ steps = 0

\* createViewportFramebuffer: a framebuffer, a texture and a renderbuffer
FramebufferNames == {"viewportFramebuffer", "viewportTexture", "rbo"}

\* main(): the default objects, centerAllModels, createViewportFramebuffer
Startup ==
    /\ Runs("viewer") /\ UNCHANGED OutsideViewer
    /\ vpc = "startup"
    /\ \E h1 \in GenTriples(ViewerState) :
         \E s1 \in {createPrimitive(ViewerState, "Cube", "red", h1)} :
           \E h2 \in GenTriples(s1) :
             \E s2 \in {createPrimitive(s1, "Sphere", "green", h2)} :
               \E h3 \in GenTriples(s2) :
                 \E s3 \in {createPrimitive(s2, "Cylinder", "blue", h3)} :
                   SetViewer(centerAllModels(s3))
    /\ glOther' = [gen |-> FramebufferNames, live |-> FramebufferNames]
    /\ vpc' = "running"
    /\ lastOp' = [op |-> "startup", ret |-> TRUE]
    /\ UNCHANGED <<relVaos, relBufs, doubleFree, steps>>

\* One user operation of the running viewer; the model follows MaxSteps of them
UserStep ==
    /\ vpc = "running"
    /\ steps < MaxSteps
    /\ steps' = steps + 1

\* Create menu: Cube, Sphere, Cylinder, Cone, Plane
CreateMenu ==
    /\ Runs("viewer") /\ UNCHANGED OutsideViewer
    /\ UserStep
    /\ Len(objects) + 2 <= MaxObjects
    /\ \E type \in MenuTypes, h \in GenTriples(ViewerState) :
         /\ SetViewer(createPrimitive(ViewerState, type, "grey", h))
    /\ lastOp' = [op |-> "create", ret |-> TRUE]
    /\ UNCHANGED <<vpc, relVaos, relBufs, doubleFree, glOther>>

\* Edit > Duplicate
Duplicate ==
    /\ Runs("viewer") /\ UNCHANGED OutsideViewer
    /\ UserStep
    /\ Len(objects) + 1 <= MaxObjects
    /\ selectedObjectIndex >= 0 /\ selectedObjectIndex < Len(objects)
    /\ \E h \in GenTriples(ViewerState) :
         LET original == objects[selectedObjectIndex + 1]
             copy == [original EXCEPT !.vao = h[1], !.vbo = h[2], !.ebo = h[3],
                         !.position[1] = original.position[1] + Unit,
                         !.name = <<"Copy", selectedObjectIndex>>]
         IN /\ objects' = Append(objects, copy)
            /\ selectedObjectIndex' = Len(objects)
            /\ glVaos' = glVaos \cup {h[1]}
            /\ glBufs' = glBufs \cup {h[2], h[3]}
    /\ lastOp' = [op |-> "duplicate", ret |-> TRUE]
    /\ UNCHANGED <<vpc, cameraDistance, cameraTarget, relVaos, relBufs, doubleFree, glOther>>

\* A delete that leaves the selection where it was
DeleteSelectedKeepIndex(opName) ==
    /\ selectedObjectIndex >= 0 /\ selectedObjectIndex < Len(objects)
    /\ SetTables(deleteObjectBuffers(GlTables, objects[selectedObjectIndex + 1]))
    /\ objects' = RemoveAt(objects, selectedObjectIndex + 1)
    /\ selectedObjectIndex' = selectedObjectIndex
    /\ lastOp' = [op |-> opName, ret |-> TRUE]
    /\ UNCHANGED <<vpc, cameraDistance, cameraTarget, glOther>>

\* The body shared by Edit > Delete and the Delete key: release the selected
\* object's buffers, erase it, clear the selection
DeleteSelected(opName) ==
    /\ selectedObjectIndex >= 0 /\ selectedObjectIndex < Len(objects)
    /\ SetTables(deleteObjectBuffers(GlTables, objects[selectedObjectIndex + 1]))
    /\ objects' = RemoveAt(objects, selectedObjectIndex + 1)
    /\ selectedObjectIndex' = -1
    /\ lastOp' = [op |-> opName, ret |-> TRUE]
    /\ UNCHANGED <<vpc, cameraDistance, cameraTarget, glOther>>

\* Edit > Delete
DeleteMenu ==
    /\ Runs("viewer") /\ UNCHANGED OutsideViewer
    /\ UserStep
    /\ DeleteSelected("deleteMenu")

\* key_callback, GLFW_KEY_DELETE
DeleteKey ==
    /\ Runs("viewer") /\ UNCHANGED OutsideViewer
    /\ UserStep
    /\ DeleteSelected("deleteKey")

\* Object list context menu > Delete, on entry i
DeleteContext ==
    /\ Runs("viewer") /\ UNCHANGED OutsideViewer
    /\ UserStep
    /\ \E i \in 0..(Len(objects) - 1) :
         /\ SetTables(deleteObjectBuffers(GlTables, objects[i + 1]))
         /\ objects' = RemoveAt(objects, i + 1)
         /\ lastOp' = [op |-> "other", ret |-> TRUE]
    /\ selectedObjectIndex' = -1
    /\ UNCHANGED <<vpc, cameraDistance, cameraTarget, glOther>>

\* File > New Scene
NewScene ==
    /\ Runs("viewer") /\ UNCHANGED OutsideViewer
    /\ UserStep
    /\ SetTables(deleteAllBuffers(GlTables, objects))
    /\ objects' = <<>>
    /\ selectedObjectIndex' = -1
    /\ cameraTarget' = Vec3(0, 0, 0)
    /\ cameraDistance' = 10 * Unit
    /\ lastOp' = [op |-> "other", ret |-> TRUE]
    /\ UNCHANGED <<vpc, glOther>>

\* Object list: click on entry i
SelectObject ==
    /\ Runs("viewer") /\ UNCHANGED OutsideViewer
    /\ UserStep
    /\ \E i \in 0..(Len(objects) - 1) :
         /\ i # selectedObjectIndex
         /\ selectedObjectIndex' = i
         /\ lastOp' = [op |-> "other", ret |-> TRUE]
    /\ UNCHANGED <<vpc, objects, cameraDistance, cameraTarget,
                   glVaos, glBufs, relVaos, relBufs, doubleFree, glOther>>

\* What tinyobj::LoadObj can hand back for a file: it fails, or it yields
\* nIdx face indices over positions spanning a box of the given size, with
\* normal_index >= 0 when the file provides normals and -1 when it does not
TinyObjResults ==
    [ok : BOOLEAN, nIdx : {0, 3}, size : {2 * Unit, 60 * Unit}, hasNormals : BOOLEAN]

\* loadOBJModel(path)
loadOBJModel(s, f, h) ==
    IF ~f.ok THEN s
    ELSE IF f.nIdx = 0 THEN s
    ELSE LET bmin == Vec3(0, 0, 0)
             bmax == Vec3(f.size, f.size, f.size)
             center == VecHalf(VecAdd(bmin, bmax))
             obj == [NewGameObject EXCEPT !.vao = h[1], !.vbo = h[2], !.ebo = h[3],
                        !.vertexCount = f.nIdx, !.indexCount = f.nIdx,
                        !.bboxMin = bmin, !.bboxMax = bmax,
                        !.name = <<"obj", 0>>,
                        !.normals = IF f.hasNormals THEN "file" ELSE "up",
                        !.position = VecSub(Vec3(0, 0, 0), center)]
             s1 == [s EXCEPT !.objects = Append(s.objects, obj),
                             !.sel = Len(s.objects),
                             !.vaos = s.vaos \cup {h[1]},
                             !.bufs = s.bufs \cup {h[2], h[3]}]
         IN autoCenterSelectedModel(s1)

\* File > Import OBJ / a dropped .obj file
ImportOBJ ==
    /\ Runs("viewer") /\ UNCHANGED OutsideViewer
    /\ UserStep
    /\ Len(objects) + 1 <= MaxObjects
    /\ \E f \in TinyObjResults, h \in GenTriples(ViewerState) :
         /\ (~f.ok \/ f.nIdx = 0) => h = CHOOSE t \in GenTriples(ViewerState) : TRUE
         /\ SetViewer(loadOBJModel(ViewerState, f, h))
         /\ lastOp' = [op |-> "loadOBJ", ret |-> f.ok /\ f.nIdx > 0]
    /\ UNCHANGED <<vpc, relVaos, relBufs, doubleFree, glOther>>

\* loadGLBModel(path): the placeholder cube, then "return false"
loadGLBModel(s, h) ==
    Bind(createPrimitive(s, "Cube", "orange", h), LAMBDA s1 :
        [state |-> [s1 EXCEPT !.objects[Len(s1.objects)].name = <<"GLB_Placeholder", 0>>],
         ret |-> FALSE])

\* File > Import GLB / a dropped .glb or .gltf file
ImportGLB ==
    /\ Runs("viewer") /\ UNCHANGED OutsideViewer
    /\ UserStep
    /\ Len(objects) + 2 <= MaxObjects
    /\ \E h \in GenTriples(ViewerState) :
         \E r \in {loadGLBModel(ViewerState, h)} :
            /\ SetViewer(r.state)
            /\ lastOp' = [op |-> "loadGLB", ret |-> r.ret]
    /\ UNCHANGED <<vpc, relVaos, relBufs, doubleFree, glOther>>

\* Edit > Center All Models, Ctrl+C, and the left panel's "Center All
\* Models" button (which runs after the frame's render3DSceneToViewport)
CenterAll ==
    /\ Runs("viewer") /\ UNCHANGED OutsideViewer
    /\ UserStep
    /\ SetViewer(centerAllModels(ViewerState))
    /\ lastOp' = [op |-> "other", ret |-> TRUE]
    /\ UNCHANGED <<vpc, relVaos, relBufs, doubleFree, glOther>>

\* View > Frame Selection, the F key, and the left panel's "Center View"
\* button and menu item (which run after the frame's render3DSceneToViewport)
FrameSelection ==
    /\ Runs("viewer") /\ UNCHANGED OutsideViewer
    /\ UserStep
    /\ selectedObjectIndex >= 0
    /\ SetViewer(autoCenterSelectedModel(ViewerState))
    /\ lastOp' = [op |-> "other", ret |-> TRUE]
    /\ UNCHANGED <<vpc, relVaos, relBufs, doubleFree, glOther>>

\* View > Reset Camera
ResetCamera ==
    /\ Runs("viewer") /\ UNCHANGED OutsideViewer
    /\ UserStep
    /\ cameraDistance' = 10 * Unit
    /\ cameraTarget' = Vec3(0, 0, 0)
    /\ lastOp' = [op |-> "other", ret |-> TRUE]
    /\ UNCHANGED <<vpc, objects, selectedObjectIndex,
                   glVaos, glBufs, relVaos, relBufs, doubleFree, glOther>>

\* The main loop ends on a close request: the cleanup loop over the objects,
\* then glDeleteFramebuffers and glDeleteTextures, then the window goes
ExitViewer ==
    /\ Runs("viewer") /\ UNCHANGED OutsideViewer
    /\ vpc = "running"
    /\ UNCHANGED steps
    /\ SetTables(deleteAllBuffers(GlTables, objects))
    /\ glOther' = [glOther EXCEPT !.live = glOther.live \ {"viewportFramebuffer", "viewportTexture"}]
    /\ vpc' = "exited"
    /\ lastOp' = [op |-> "exit", ret |-> TRUE]
    /\ UNCHANGED <<objects, selectedObjectIndex, cameraDistance, cameraTarget>>

\* updateCamera(), the bounds of the camera distance (and glm::clamp(
\* cameraDistance, 0.5f, 100.0f) of scroll_callback)
ClampDistance(d) ==
    IF d < Unit \div 2 THEN Unit \div 2
    ELSE IF d > 100 * Unit THEN 100 * Unit
    ELSE d

\* The mouse wheel turns of one scroll event
ScrollOffsets == {-20, -1, 1, 20}

\* scroll_callback(window, xoffset, yoffset)
Scroll ==
    /\ Runs("viewer") /\ UNCHANGED OutsideViewer
    /\ UserStep
    /\ \E hovered \in BOOLEAN, yoffset \in ScrollOffsets :
         cameraDistance' =
            IF ~hovered THEN cameraDistance
            ELSE Bind(TruncDiv(cameraDistance * (Unit \div 10), Unit), LAMBDA zoomSpeed :
                     ClampDistance(cameraDistance - yoffset * zoomSpeed))
    /\ lastOp' = [op |-> "other", ret |-> TRUE]
    /\ UNCHANGED <<vpc, objects, selectedObjectIndex, cameraTarget,
                   glVaos, glBufs, relVaos, relBufs, doubleFree, glOther>>

\* render3DSceneToViewport(), once per frame of the main loop: updateCamera()
RenderViewport ==
    /\ Runs("viewer") /\ UNCHANGED OutsideViewer
    /\ vpc = "running"
    /\ cameraDistance' = ClampDistance(cameraDistance)
    /\ lastOp' = [op |-> "other", ret |-> TRUE]
    /\ UNCHANGED <<vpc, objects, selectedObjectIndex, cameraTarget, steps,
                   glVaos, glBufs, relVaos, relBufs, doubleFree, glOther>>

NextViewer ==
    \/ Startup
    \/ CreateMenu
    \/ Duplicate
    \/ DeleteMenu
    \/ DeleteKey
    \/ DeleteContext
    \/ NewScene
    \/ SelectObject
    \/ ImportOBJ
    \/ ImportGLB
    \/ CenterAll
    \/ FrameSelection
    \/ ResetCamera
    \/ Scroll
    \/ RenderViewport
    \/ ExitViewer

-----------------------------------------------------------------------------
(* OBJLoader::loadOBJ (load_obj_model.cpp).  An OBJ file is whether it can  *)
(* be opened, and its lines: a position (v), a normal (vn), or a face (f)  *)
(* of n vertex tokens, each naming the 1-based position pos.               *)

ObjLines ==
    {[k |-> "v", n |-> 0, pos |-> 0], [k |-> "vn", n |-> 0, pos |-> 0],
     [k |-> "f", n |-> 2, pos |-> 1]}
    \cup [k : {"f"}, n : {3, 4}, pos : 1..MaxPos]

ObjFileSet ==
    {[opens |-> FALSE, lines |-> <<>>]}
    \cup {[opens |-> TRUE, lines |-> l] :
            l \in UNION {[1..m -> ObjLines] : m \in 0..MaxObjLines}}

\* positions[posIdx] is not range-checked: with posIdx out of range the
\* read either traps or yields whatever lies there
UBOutcomes == {"trap", "garbage"}

\* Mesh(): no vertices, no indices
Mesh == [vertices |-> <<>>, indices |-> <<>>]

\* parseVertex: the vertex of a face token
parseVertex(pos, nPositions) ==
    IF pos - 1 >= 0 /\ pos - 1 < nPositions
    THEN [position |-> pos, valid |-> TRUE, normal |-> "default"]
    ELSE [position |-> 0, valid |-> FALSE, normal |-> "default"]

\* A parser that splits a quad into (b, b+1, b+2) and (b+1, b+2, b+3)
ParseLineStrip(state, line, ub) ==
    Bind(state, LAMBDA acc :
    IF acc.end # "ok" THEN acc
    ELSE IF line.k = "v" THEN [acc EXCEPT !.positions = acc.positions + 1]
    ELSE IF line.k = "vn" THEN [acc EXCEPT !.normals = acc.normals + 1]
    ELSE LET v == parseVertex(line.pos, acc.positions)
             baseIndex == Len(acc.vertices)
         IN IF ~v.valid /\ ub = "trap" THEN [acc EXCEPT !.end = "trap"]
            ELSE IF line.n < 3 THEN [acc EXCEPT !.end = "throw"]
            ELSE IF line.n = 3
            THEN [acc EXCEPT !.vertices = acc.vertices \o <<v, v, v>>,
                             !.indices = acc.indices
                                 \o <<baseIndex, baseIndex + 1, baseIndex + 2>>]
            ELSE [acc EXCEPT !.vertices = acc.vertices \o <<v, v, v, v>>,
                             !.indices = acc.indices
                                 \o <<baseIndex, baseIndex + 1, baseIndex + 2,
                                      baseIndex + 1, baseIndex + 2, baseIndex + 3>>])

\* One iteration of the getline loop on the parser state acc
ParseLine(state, line, ub) ==
    Bind(state, LAMBDA acc :
    IF acc.end # "ok" THEN acc
    ELSE IF line.k = "v" THEN [acc EXCEPT !.positions = acc.positions + 1]
    ELSE IF line.k = "vn" THEN [acc EXCEPT !.normals = acc.normals + 1]
    ELSE LET v == parseVertex(line.pos, acc.positions)
             baseIndex == Len(acc.vertices)
         IN IF ~v.valid /\ ub = "trap" THEN [acc EXCEPT !.end = "trap"]
            \* a token that is missing is the empty string: std::stoi throws
            ELSE IF line.n < 3 THEN [acc EXCEPT !.end = "throw"]
            ELSE IF line.n = 3
            THEN [acc EXCEPT !.vertices = acc.vertices \o <<v, v, v>>,
                             !.indices = acc.indices
                                 \o <<baseIndex, baseIndex + 1, baseIndex + 2>>]
            ELSE [acc EXCEPT !.vertices = acc.vertices \o <<v, v, v, v>>,
                             !.indices = acc.indices
                                 \o <<baseIndex, baseIndex + 1, baseIndex + 2,
                                      baseIndex, baseIndex + 2, baseIndex + 3>>])

RECURSIVE ParseLines(_, _, _)
\* while (std::getline(file, line)) { ... }
ParseLines(acc, lines, ub) ==
    IF lines = <<>> THEN acc
    ELSE ParseLines(ParseLine(acc, Head(lines), ub), Tail(lines), ub)

\* calculateNormals: every vertex normal is recomputed from the faces
calculateNormals(vertices) ==
    [i \in DOMAIN vertices |-> [vertices[i] EXCEPT !.normal = "computed"]]

\* A loader that stores what it parsed before it tests it for emptiness
loadOBJAssignFirst(file, mesh, ub) ==
    IF ~file.opens THEN [ret |-> "false", mesh |-> mesh]
    ELSE Bind(ParseLines([positions |-> 0, normals |-> 0, vertices |-> <<>>,
                          indices |-> <<>>, end |-> "ok"], file.lines, ub),
              LAMBDA p :
                LET parsed == [vertices |-> p.vertices, indices |-> p.indices]
                IN IF p.end # "ok" THEN [ret |-> p.end, mesh |-> mesh]
                   ELSE IF p.vertices = <<>> THEN [ret |-> "false", mesh |-> parsed]
                   ELSE [ret |-> "true", mesh |-> parsed])

\* OBJLoader::loadOBJ(filepath, mesh): ret is "true" or "false" when it
\* returns, "throw" or "trap" when it does not; mesh is the target afterwards
loadOBJ(file, mesh, ub) ==
    IF ~file.opens THEN [ret |-> "false", mesh |-> mesh]
    ELSE Bind(ParseLines([positions |-> 0, normals |-> 0, vertices |-> <<>>,
                          indices |-> <<>>, end |-> "ok"], file.lines, ub),
              LAMBDA p :
                IF p.end # "ok" THEN [ret |-> p.end, mesh |-> mesh]
                ELSE IF p.vertices = <<>> THEN [ret |-> "false", mesh |-> mesh]
                ELSE [ret |-> "true",
                      mesh |-> [vertices |-> IF p.normals = 0
                                             THEN calculateNormals(p.vertices)
                                             ELSE p.vertices,
                                indices |-> p.indices]])

\* The meshes loadOBJ is called on: a new Mesh, and a mesh that holds the
\* triangle an earlier call has loaded
TargetMeshes ==
    {Mesh,
     loadOBJ([opens |-> TRUE,
              lines |-> <<[k |-> "v", n |-> 0, pos |-> 0], [k |-> "f", n |-> 3, pos |-> 1]>>],
             Mesh, "trap").mesh}

InitObj ==
    /\ objFile = [opens |-> FALSE, lines |-> <<>>]
    /\ objBefore = Mesh
    /\ objMesh = Mesh
    /\ objRet = "none"

\* One call loadOBJ(file, mesh); objFile keeps the file, and objBefore the
\* target mesh as it was when the call was made
LoadOBJCall ==
    /\ Runs("loadOBJ") /\ UNCHANGED OutsideObj
    /\ objRet = "none"
    /\ \E file \in ObjFileSet, ub \in UBOutcomes, target \in TargetMeshes :
         \E r \in {loadOBJ(file, target, ub)} :
            /\ objFile' = file
            /\ objBefore' = target
            /\ objMesh' = r.mesh
            /\ objRet' = r.ret

NextObj == LoadOBJCall

-----------------------------------------------------------------------------
(* The house viewer: main() of load_obj_model.cpp *)

\* generateSimpleHouse: 44 vertices with their own normals, 60 indices
generateSimpleHouse ==
    [vertices |-> [i \in 1..44 |-> [position |-> i, valid |-> TRUE, normal |-> "given"]],
     indices |-> << 0, 1, 2, 2, 3, 0, 4, 5, 6, 6, 7, 4,
                    8, 9, 10, 10, 11, 8, 12, 13, 14, 14, 15, 12,
                    16, 17, 18, 19, 20, 18, 19, 16, 18, 20, 17, 18,
                    24, 25, 26, 26, 27, 24, 28, 29, 30, 30, 31, 28,
                    32, 33, 34, 34, 35, 32, 36, 37, 38, 38, 39, 36 >>]

InitHouse ==
    /\ hpc = "start"
    /\ houseMesh = Mesh
    /\ objLoaded = FALSE
    /\ loadFailed = FALSE
    /\ houseFrames = 0

\* main() up to the render loop: load the OBJ file if it is there, else
\* generate the house; "return -1" when objLoaded is false
HouseLoad ==
    /\ Runs("house") /\ UNCHANGED OutsideHouse
    /\ hpc = "start"
    /\ \E file \in ObjFileSet, ub \in UBOutcomes :
         IF file.opens
         THEN \E r \in {loadOBJ(file, houseMesh, ub)} :
                 /\ houseMesh' = r.mesh
                 /\ objLoaded' = (r.ret = "true")
                 /\ loadFailed' = (r.ret = "false")
                 /\ hpc' = CASE r.ret = "true" -> "running"
                             [] r.ret = "false" -> "returned -1"
                             [] OTHER -> "terminated"
         ELSE /\ houseMesh' = generateSimpleHouse
              /\ objLoaded' = TRUE
              /\ loadFailed' = TRUE
              /\ hpc' = "running"
    /\ UNCHANGED houseFrames

\* One iteration of the render loop
HouseFrame ==
    /\ Runs("house") /\ UNCHANGED OutsideHouse
    /\ hpc = "running"
    /\ houseFrames < MaxFrames
    /\ houseFrames' = houseFrames + 1
    /\ UNCHANGED <<hpc, houseMesh, objLoaded, loadFailed>>

\* ESC, the Exit button or the window's close box: the loop ends, the
\* cleanup runs, main returns 0
HouseClose ==
    /\ Runs("house") /\ UNCHANGED OutsideHouse
    /\ hpc = "running"
    /\ hpc' = "returned 0"
    /\ UNCHANGED <<houseMesh, objLoaded, loadFailed, houseFrames>>

NextHouse == HouseLoad \/ HouseFrame \/ HouseClose

-----------------------------------------------------------------------------
(* The rotating-sphere demo: main() of rotating_cube_1.cpp *)

SphereDefaults == [radius |-> Unit, segments |-> 32, stacks |-> 16]
\* Values the sliders are moved to
SegmentValues == {8, 32, 64}
StackValues == {4, 16, 32}
RadiusValues == {Unit \div 10, Unit, 3 * Unit}

\* setupSphere: glGenVertexArrays, glGenBuffers, glGenBuffers; nothing has
\* been released while the loop runs, so the names are new ones
setupSphere(gen) ==
    LET nv == Cardinality({g \in gen : g[1] = "vao"})
        nb == Cardinality({g \in gen : g[1] = "buf"})
    IN [VAO |-> <<"vao", nv + 1>>, VBO |-> <<"buf", nb + 1>>, EBO |-> <<"buf", nb + 2>>]

HandleSet(h) == {h.VAO, h.VBO, h.EBO}

\* The time between two frames as glfwGetTime measures it
FrameTimes == {Unit \div 20, (4 * Unit) \div 10}

InitSphere ==
    /\ spc = "init"
    /\ sphereParams = SphereDefaults
    /\ sphereMeshOf = SphereDefaults
    /\ showImGui = TRUE
    /\ sphereHandles = [VAO |-> <<"vao", 0>>, VBO |-> <<"buf", 0>>, EBO |-> <<"buf", 0>>]
    /\ sphereGen = {}
    /\ sphereLive = {}
    /\ sphereFrames = 0
    /\ sphereTime = [lastTime |-> 0, deltaTime |-> 0, rotationAngle |-> 0]

\* generateSphere(..., radius, segments, stacks); setupSphere(...)
Regenerate(params) ==
    LET h == setupSphere(sphereGen)
    IN /\ sphereMeshOf' = params
       /\ sphereHandles' = h
       /\ sphereGen' = sphereGen \cup HandleSet(h)
       /\ sphereLive' = sphereLive \cup HandleSet(h)

\* main() up to the render loop
SphereStartup ==
    /\ Runs("sphere") /\ UNCHANGED OutsideSphere
    /\ spc = "init"
    /\ spc' = "running"
    /\ LET h == setupSphere({})
       IN /\ sphereHandles' = h
          /\ sphereGen' = HandleSet(h) \cup {<<"program", 1>>}
          /\ sphereLive' = HandleSet(h) \cup {<<"program", 1>>}
    /\ UNCHANGED <<sphereParams, sphereMeshOf, showImGui, sphereFrames, sphereTime>>

\* One iteration of the render loop: the delta time, and the rotation by
\* rotationSpeed (45 degrees per second) * deltaTime
SphereFrame ==
    /\ Runs("sphere") /\ UNCHANGED OutsideSphere
    /\ spc = "running"
    /\ sphereFrames < MaxFrames
    /\ sphereFrames' = sphereFrames + 1
    /\ \E elapsed \in FrameTimes :
         sphereTime' =
            [lastTime |-> sphereTime.lastTime + elapsed,
             deltaTime |-> elapsed,
             rotationAngle |-> sphereTime.rotationAngle
                                 + TruncDiv(45 * Unit * elapsed, Unit)]
    /\ UNCHANGED spc

\* A frame in which M is pressed (or the menu's close box is clicked)
SphereToggleMenu ==
    /\ SphereFrame
    /\ showImGui' = ~showImGui
    /\ UNCHANGED <<sphereParams, sphereMeshOf, sphereHandles, sphereGen, sphereLive>>

\* A frame in which the Segments slider is moved
SphereSetSegments ==
    /\ SphereFrame
    /\ showImGui
    /\ \E v \in SegmentValues \ {sphereParams.segments} :
         /\ sphereParams' = [sphereParams EXCEPT !.segments = v]
         /\ Regenerate([sphereParams EXCEPT !.segments = v])
    /\ UNCHANGED showImGui

\* A frame in which the Stacks slider is moved
SphereSetStacks ==
    /\ SphereFrame
    /\ showImGui
    /\ \E v \in StackValues \ {sphereParams.stacks} :
         /\ sphereParams' = [sphereParams EXCEPT !.stacks = v]
         /\ Regenerate([sphereParams EXCEPT !.stacks = v])
    /\ UNCHANGED showImGui

\* A frame in which the Radius slider is moved: no regeneration
SphereSetRadius ==
    /\ SphereFrame
    /\ showImGui
    /\ \E v \in RadiusValues \ {sphereParams.radius} :
         sphereParams' = [sphereParams EXCEPT !.radius = v]
    /\ UNCHANGED <<showImGui, sphereMeshOf, sphereHandles, sphereGen, sphereLive>>

\* A frame in which "Reset to Defaults" is clicked
SphereReset ==
    /\ SphereFrame
    /\ showImGui
    /\ sphereParams' = SphereDefaults
    /\ Regenerate(SphereDefaults)
    /\ UNCHANGED showImGui

\* A close request ends the loop: glDeleteVertexArrays(sphereVAO),
\* glDeleteBuffers(sphereVBO), glDeleteBuffers(sphereEBO),
\* glDeleteProgram(shaderProgram), then the window and GLFW go
SphereClose ==
    /\ Runs("sphere") /\ UNCHANGED OutsideSphere
    /\ spc = "running"
    /\ spc' = "exited"
    /\ sphereLive' = (sphereLive \ HandleSet(sphereHandles)) \ {<<"program", 1>>}
    /\ UNCHANGED <<sphereParams, sphereMeshOf, showImGui, sphereHandles,
                   sphereGen, sphereFrames, sphereTime>>

NextSphere ==
    \/ SphereStartup
    \/ SphereToggleMenu
    \/ SphereSetSegments
    \/ SphereSetStacks
    \/ SphereSetRadius
    \/ SphereReset
    \/ SphereClose

-----------------------------------------------------------------------------
(* The rolling-ball game (src/main.cpp): fixed-point arithmetic *)

\* float product of two fixed-point numbers
MulU(a, b) == TruncDiv(a * b, Unit)

RECURSIVE SqrtSearch(_, _, _)
\* the largest r in lo..hi with r * r <= n
SqrtSearch(n, lo, hi) ==
    IF lo >= hi THEN lo
    ELSE LET mid == (lo + hi + 1) \div 2
         IN IF mid * mid <= n THEN SqrtSearch(n, mid, hi)
            ELSE SqrtSearch(n, lo, mid - 1)

\* sqrt, of a number below 2^31
Sqrt(n) == SqrtSearch(n, 0, Min2(n, 46340))

\* Vec3::operator*(float)
VecScale(a, k) == <<MulU(a[1], k), MulU(a[2], k), MulU(a[3], k)>>
\* Vec3::dot
dot(a, b) == TruncDiv(a[1] * b[1] + a[2] * b[2] + a[3] * b[3], Unit)
\* Vec3::lengthSquared, in units of 1/Unit^2
lengthSquared(a) == a[1] * a[1] + a[2] * a[2] + a[3] * a[3]
\* Vec3::length
length(a) == Sqrt(lengthSquared(a))
\* a.length() < r, for a vector of any length
ShorterThan(a, r) ==
    /\ \A i \in 1..3 : Abs(a[i]) < r
    /\ lengthSquared(a) < r * r

\* sin and cos of an angle in radians, by Bhaskara's rational approximation
Pi == (355 * Unit) \div 113
Sin(a) ==
    LET B(x) == (16 * x * (Pi - x)) \div ((5 * Pi * Pi - 4 * x * (Pi - x)) \div Unit)
    IN Bind(a % (2 * Pi), LAMBDA r : IF r <= Pi THEN B(r) ELSE -B(r - Pi))
Cos(a) == Sin(a + Pi \div 2)

\* fmod: the remainder has the sign of the dividend
Fmod(a, b) == IF a >= 0 THEN a % b ELSE -((-a) % b)

\* dis(gen): the k-th draw, in [0, 1), of the generator that was seeded with
\* seed (std::random_device; the model follows MaxSeed + 1 seeds)
Dis(seed, k) == (((seed * 613 + k * 389 + 71) % Unit) * 977) % Unit
\* gen: the seed and the number of draws made so far
Generator(seed) == [seed |-> seed, drawn |-> 0]
Draw(g, k) == Dis(g.seed, g.drawn + k)
Advance(g, n) == [g EXCEPT !.drawn = @ + n]

\* Vec3::operator/(float): the zero vector for a divisor of no size
VecDiv(a, s) ==
    IF Abs(s) > 0
    THEN <<TruncDiv(a[1] * Unit, s), TruncDiv(a[2] * Unit, s), TruncDiv(a[3] * Unit, s)>>
    ELSE <<0, 0, 0>>

\* Vec3::normalize: (0,1,0) for a vector of no length
normalize(a) ==
    Bind(length(a), LAMBDA l : IF l > 0 THEN VecDiv(a, l) ELSE <<0, Unit, 0>>)
\* Vec3::lerp
lerp(a, b, t) == VecAdd(VecScale(a, Unit - t), VecScale(b, t))

-----------------------------------------------------------------------------
(* Terrain *)

\* Terrain(int w = 100, int d = 200, float grid = 1.0f); the height map is
\* what generateHeightMap draws with the generator g
Terrain(g) ==
    [width |-> TerrainWidth, depth |-> TerrainDepth, gridSize |-> Unit,
     seed |-> g.seed, base |-> g.drawn]

\* heightMap[z * width + x] as generateHeightMap fills it
heightMap(t, x, z) ==
    LET relief == MulU(MulU(Sin(x * (Unit \div 10)), Cos(z * (Unit \div 10))), Unit \div 2)
                  + MulU(Sin(x * (Unit \div 20) + z * ((3 * Unit) \div 100)), (3 * Unit) \div 10)
        roadWidth == 4 * Unit
        distanceFromCenter == Abs(x - t.width \div 2) * Unit
        shaped == IF distanceFromCenter < roadWidth THEN Unit \div 10
                  ELSE relief - MulU(distanceFromCenter - roadWidth, Unit \div 10)
    IN shaped + MulU(Dis(t.seed, t.base + z * t.width + x) - Unit \div 2, Unit \div 10)

\* getHeight with a bottom row that is not weighted by zRatio
getHeightUnweighted(t, x, z) ==
    LET xi == TruncDiv(x + (t.width \div 2) * Unit, t.gridSize)
        zi == TruncDiv(z + (t.depth \div 2) * Unit, t.gridSize)
    IN IF xi < 0 \/ xi >= t.width - 1 \/ zi < 0 \/ zi >= t.depth - 1 THEN 0
       ELSE LET xRatio == TruncDiv(Fmod(x + (t.width \div 2) * Unit, t.gridSize) * Unit, t.gridSize)
                zRatio == TruncDiv(Fmod(z + (t.depth \div 2) * Unit, t.gridSize) * Unit, t.gridSize)
                h1 == heightMap(t, xi, zi)
                h2 == heightMap(t, xi + 1, zi)
                h3 == heightMap(t, xi, zi + 1)
                h4 == heightMap(t, xi + 1, zi + 1)
                top == MulU(h1, Unit - xRatio) + MulU(h2, xRatio)
                bottom == MulU(h3, Unit - xRatio) + MulU(h4, xRatio)
            IN MulU(top, Unit - zRatio) + bottom

\* Terrain::getHeight(x, z)
getHeight(t, x, z) ==
    LET xi == TruncDiv(x + (t.width \div 2) * Unit, t.gridSize)
        zi == TruncDiv(z + (t.depth \div 2) * Unit, t.gridSize)
    IN IF xi < 0 \/ xi >= t.width - 1 \/ zi < 0 \/ zi >= t.depth - 1 THEN 0
       ELSE LET xRatio == TruncDiv(Fmod(x + (t.width \div 2) * Unit, t.gridSize) * Unit, t.gridSize)
                zRatio == TruncDiv(Fmod(z + (t.depth \div 2) * Unit, t.gridSize) * Unit, t.gridSize)
                h1 == heightMap(t, xi, zi)
                h2 == heightMap(t, xi + 1, zi)
                h3 == heightMap(t, xi, zi + 1)
                h4 == heightMap(t, xi + 1, zi + 1)
                top == MulU(h1, Unit - xRatio) + MulU(h2, xRatio)
                bottom == MulU(h3, Unit - xRatio) + MulU(h4, xRatio)
            IN MulU(top, Unit - zRatio) + MulU(bottom, zRatio)

\* Terrain::getNormal(x, z)
getNormal(t, x, z) ==
    LET eps == Unit \div 10
        hL == getHeight(t, x - eps, z)
        hR == getHeight(t, x + eps, z)
        hD == getHeight(t, x, z - eps)
        hU == getHeight(t, x, z + eps)
    IN normalize(<<hL - hR, 2 * eps, hD - hU>>)

\* Query coordinates around the two edges of a grid axis of n samples, and
\* in its middle
QueryCoords(n) ==
    LET low == -((n \div 2) * Unit)
        high == low + (n - 1) * Unit
    IN {low - 2 * Unit, low - Unit - Unit \div 2, low - Unit, low - Unit \div 2, low - 1,
        low, low + Unit \div 4, 0, Unit \div 2,
        high - Unit \div 2, high, high + Unit \div 2, high + Unit}

InitTerrain ==
    /\ tQuery = <<0, 0, 0>>
    /\ tHeight = 0

\* One call getHeight(x, z) on a terrain
TerrainQuery ==
    /\ Runs("getHeight") /\ UNCHANGED OutsideTerrain
    /\ \E seed \in 0..MaxSeed, x \in QueryCoords(TerrainWidth), z \in QueryCoords(TerrainDepth) :
         /\ tQuery' = <<seed, x, z>>
         /\ tHeight' = getHeight(Terrain(Generator(seed)), x, z)

NextTerrain == TerrainQuery

-----------------------------------------------------------------------------
(* MetaBall and Obstacle *)

\* MetaBall()
MetaBall ==
    [position |-> <<0, 2 * Unit, 0>>, velocity |-> <<0, 0, 0>>,
     acceleration |-> <<0, 0, 0>>, radius |-> Unit \div 2, rotationAngle |-> 0,
     rotationSpeed |-> 2 * Unit, mass |-> Unit, elasticity |-> (8 * Unit) \div 10,
     health |-> 100 * Unit, isAlive |-> TRUE]

\* MetaBall::update, the explicit Euler step and the rotation
Integrate(ball, deltaTime, gravity) ==
    Bind(VecAdd(ball.velocity, VecScale(gravity, deltaTime)), LAMBDA v :
    Bind(ball.rotationAngle + MulU(ball.rotationSpeed, deltaTime), LAMBDA angle :
        [ball EXCEPT !.acceleration = gravity,
                     !.velocity = v,
                     !.position = VecAdd(@, VecScale(v, deltaTime)),
                     !.rotationAngle = IF angle > 360 * Unit THEN angle - 360 * Unit
                                       ELSE angle]))

\* MetaBall::update, the collision with the plane y = 0
GroundCollision(ball) ==
    IF ball.position[2] - ball.radius < 0
    THEN [ball EXCEPT !.position[2] = ball.radius,
                      !.velocity = VecScale(<<@[1], MulU(-@[2], ball.elasticity), @[3]>>,
                                            (95 * Unit) \div 100)]
    ELSE ball

\* MetaBall::update, the bounds of the track
KeepWithinBounds(ball) ==
    [ball EXCEPT !.position = <<Max2(-10 * Unit, Min2(10 * Unit, @[1])), @[2],
                                Max2(-50 * Unit, @[3])>>]

\* MetaBall::update(deltaTime, gravity)
MetaBall_update(ball, deltaTime, gravity) ==
    IF ~ball.isAlive THEN ball
    ELSE Bind(Integrate(ball, deltaTime, gravity), LAMBDA b1 :
         Bind(GroundCollision(b1), LAMBDA b2 : KeepWithinBounds(b2)))

\* MetaBall::applyForce(force)
applyForce(ball, force) ==
    [ball EXCEPT !.acceleration = VecAdd(@, VecDiv(force, ball.mass))]

\* MetaBall::takeDamage(damage)
takeDamage(ball, damage) ==
    Bind(ball.health - damage, LAMBDA h :
        [ball EXCEPT !.health = h, !.isAlive = IF h <= 0 THEN FALSE ELSE @])

\* checkCollision with a box that reaches twice as high
checkCollisionTallBox(obs, ball) ==
    /\ obs.isActive
    /\ LET closestPoint ==
               <<Max2(obs.position[1] - TruncDiv(obs.width, 2),
                      Min2(ball.position[1], obs.position[1] + TruncDiv(obs.width, 2))),
                 Max2(obs.position[2], Min2(ball.position[2], obs.position[2] + 2 * obs.height)),
                 Max2(obs.position[3] - TruncDiv(obs.depth, 2),
                      Min2(ball.position[3], obs.position[3] + TruncDiv(obs.depth, 2)))>>
       IN ShorterThan(VecSub(closestPoint, ball.position), ball.radius)

\* Obstacle::checkCollision(ball)
checkCollision(obs, ball) ==
    /\ obs.isActive
    /\ LET closestPoint ==
               <<Max2(obs.position[1] - TruncDiv(obs.width, 2),
                      Min2(ball.position[1], obs.position[1] + TruncDiv(obs.width, 2))),
                 Max2(obs.position[2], Min2(ball.position[2], obs.position[2] + obs.height)),
                 Max2(obs.position[3] - TruncDiv(obs.depth, 2),
                      Min2(ball.position[3], obs.position[3] + TruncDiv(obs.depth, 2)))>>
       IN ShorterThan(VecSub(closestPoint, ball.position), ball.radius)

-----------------------------------------------------------------------------
(* Game *)

\* Game::generateObstacles(count): seven draws per obstacle
generateObstacles(g, count) ==
    Bind(g, LAMBDA s :
        [s EXCEPT
            !.obstacles = @ \o
                [k \in 1..count |->
                    LET d(j) == Draw(s.gen, 7 * (k - 1) + j)
                    IN [position |-> <<MulU(d(0) - Unit \div 2, 3 * Unit), 0,
                                        -30 * Unit - (k - 1) * 15 * Unit>>,
                        width |-> Unit \div 2 + d(1),
                        height |-> Unit \div 2 + 2 * d(2),
                        depth |-> Unit \div 2 + d(3),
                        damage |-> 10 * Unit + 10 * d(6),
                        isActive |-> TRUE]],
            !.gen = Advance(@, 7 * count)])

\* Game::generateCollectibles(count): two draws per collectible
generateCollectibles(g, count) ==
    Bind(g, LAMBDA s :
        [s EXCEPT
            !.collectibles = @ \o
                [k \in 1..count |->
                    <<MulU(Draw(s.gen, 2 * (k - 1)) - Unit \div 2, 6 * Unit),
                      Unit + 2 * Draw(s.gen, 2 * (k - 1) + 1),
                      -20 * Unit - (k - 1) * 10 * Unit>>],
            !.gen = Advance(@, 2 * count)])

\* Game::generateTrees(count): eight draws per tree; the model keeps the
\* position of a tree
generateTrees(g, count) ==
    Bind(g, LAMBDA s :
        [s EXCEPT
            !.trees = @ \o
                [k \in 1..count |->
                    LET d(j) == Draw(s.gen, 8 * (k - 1) + j)
                        side == IF d(0) > Unit \div 2 THEN 1 ELSE -1
                        x == (100 * Unit + 2 * Unit + 10 * d(1)) * side
                        z == -20 * Unit - (k - 1) * 20 * Unit
                    IN <<x, getHeight(s.terrain, x, z), z>>],
            !.gen = Advance(@, 8 * count)])

\* Game::generateGrass(count): two draws per patch
generateGrass(g, count) ==
    Bind(g, LAMBDA s :
        [s EXCEPT
            !.grassPatches = @ \o
                [k \in 1..count |->
                    LET d(j) == Draw(s.gen, 2 * (k - 1) + j)
                        side == IF d(0) > Unit \div 2 THEN 1 ELSE -1
                        x == (100 * Unit + Unit + 8 * d(1)) * side
                        z == -10 * Unit - (k - 1) * 8 * Unit
                    IN <<x, getHeight(s.terrain, x, z) + Unit \div 10, z>>],
            !.gen = Advance(@, 2 * count)])

\* Game::resetGame()
resetGame(g) ==
    Bind(g, LAMBDA s :
    Bind([s EXCEPT !.player = MetaBall,
                   !.terrain = Terrain(s.gen),
                   !.gen = Advance(@, TerrainWidth * TerrainDepth),
                   !.obstacles = <<>>,
                   !.collectibles = <<>>,
                   !.trees = <<>>,
                   !.grassPatches = <<>>,
                   !.gameSpeed = 10 * Unit,
                   !.difficulty = Unit,
                   !.score = 0,
                   !.distance = 0,
                   !.gameOver = FALSE,
                   !.gamePaused = FALSE,
                   !.environmentRotation = 0,
                   !.currentState = "PLAYING"], LAMBDA s1 :
        generateGrass(generateTrees(generateCollectibles(generateObstacles(s1, 20), 10), 30), 50)))

\* Game(): the member initialisers (the terrain member draws its own height
\* map), resetGame() and the initial camera
Game(seed) ==
    Bind(resetGame(
            [player |-> MetaBall,
             terrain |-> Terrain(Generator(seed)),
             gen |-> Advance(Generator(seed), TerrainWidth * TerrainDepth),
             obstacles |-> <<>>, collectibles |-> <<>>, trees |-> <<>>,
             grassPatches |-> <<>>,
             gameSpeed |-> 10 * Unit, difficulty |-> Unit, score |-> 0, distance |-> 0,
             gameOver |-> FALSE, gamePaused |-> FALSE, inMenu |-> TRUE,
             cameraPosition |-> <<0, 0, 0>>, cameraTarget |-> <<0, 0, 0>>,
             cameraAngle |-> 0, cameraDistance |-> 8 * Unit,
             environmentRotation |-> 0, environmentRotationSpeed |-> Unit \div 10,
             currentState |-> "MENU"]), LAMBDA s :
        [s EXCEPT !.cameraPosition = <<0, 5 * Unit, 10 * Unit>>,
                  !.cameraTarget = s.player.position])

\* Game::update, the environment rotation
RotateEnvironment(g, deltaTime) ==
    Bind(g.environmentRotation + MulU(g.environmentRotationSpeed, deltaTime), LAMBDA r :
        [g EXCEPT !.environmentRotation = IF r > 360 * Unit THEN r - 360 * Unit ELSE r])

Gravity == <<0, -((98 * Unit) \div 10), 0>>

\* Game::update, the collision of the player with the terrain
TerrainCollision(g) ==
    Bind(g, LAMBDA s :
    Bind(getHeight(s.terrain, s.player.position[1], s.player.position[3]), LAMBDA terrainHeight :
        IF s.player.position[2] - s.player.radius < terrainHeight
        THEN Bind([s.player EXCEPT !.position[2] = terrainHeight + s.player.radius,
                                   !.velocity[2] = 0], LAMBDA p :
             Bind(getNormal(s.terrain, p.position[1], p.position[3]), LAMBDA normal :
                 [s EXCEPT !.player =
                     [p EXCEPT !.velocity =
                         VecSub(@, VecScale(VecScale(normal, dot(p.velocity, normal)),
                                            Unit \div 10))]]))
        ELSE s))

\* Game::update, distance, score, difficulty and speed
Progress(g, deltaTime) ==
    Bind(g, LAMBDA s :
        [s EXCEPT !.distance = @ + MulU(s.gameSpeed, deltaTime),
                  !.score = @ + MulU(MulU(s.gameSpeed, deltaTime), Unit \div 10),
                  !.difficulty = @ + MulU(deltaTime, Unit \div 100),
                  !.gameSpeed = @ + MulU(deltaTime, Unit \div 10)])

RECURSIVE ObstacleLoop(_, _)
\* Game::update, the loop over the obstacles from the i-th on
ObstacleLoop(g, i) ==
    IF i > Len(g.obstacles) THEN g
    ELSE ObstacleLoop(
            Bind(g, LAMBDA s :
            Bind(s.obstacles[i], LAMBDA obs :
                IF checkCollision(obs, s.player)
                THEN [s EXCEPT !.player = [takeDamage(s.player, obs.damage)
                                              EXCEPT !.velocity = VecScale(@, -(Unit \div 2))],
                               !.obstacles[i].isActive = FALSE,
                               !.score = Max2(0, @ - obs.damage * 2)]
                ELSE s)), i + 1)

RECURSIVE CollectibleLoop(_, _)
\* Game::update, the loop over the collectibles from the i-th on
CollectibleLoop(g, i) ==
    IF i > Len(g.collectibles) THEN g
    ELSE Bind(g, LAMBDA s :
            IF ShorterThan(VecSub(s.player.position, s.collectibles[i]),
                           s.player.radius + Unit \div 2)
            THEN CollectibleLoop(
                    [s EXCEPT !.score = @ + 50 * Unit,
                              !.player.health = Min2(@ + 10 * Unit, 100 * Unit),
                              !.collectibles = RemoveAt(@, i)], i)
            ELSE CollectibleLoop(s, i + 1))

\* Game::update, the end of the game
CheckGameOver(g) ==
    Bind(g, LAMBDA s :
        IF ~s.player.isAlive \/ s.player.health <= 0
        THEN [s EXCEPT !.currentState = "GAME_OVER", !.gameOver = TRUE]
        ELSE s)

\* Game::updateCamera(deltaTime)
updateCamera(g, deltaTime) ==
    Bind(g, LAMBDA s :
    Bind(s.cameraAngle + MulU(deltaTime, Unit \div 2), LAMBDA angle :
    Bind(lerp(s.cameraTarget, s.player.position, MulU(deltaTime, 5 * Unit)), LAMBDA target :
        [s EXCEPT !.cameraAngle = angle,
                  !.cameraTarget = target,
                  !.cameraPosition =
                      VecAdd(target, <<MulU(Sin(angle), s.cameraDistance), 4 * Unit,
                                       MulU(Cos(angle), s.cameraDistance)>>)])))

\* Game::update, more obstacles ahead of the player
MoreObstacles(g) ==
    Bind(g, LAMBDA s :
        IF s.obstacles[Len(s.obstacles)].position[3] > s.player.position[3] - 100 * Unit
        THEN generateObstacles(s, 5) ELSE s)

\* Game::update, more collectibles ahead of the player
MoreCollectibles(g) ==
    Bind(g, LAMBDA s :
        IF \/ s.collectibles = <<>>
           \/ s.collectibles[Len(s.collectibles)][3] > s.player.position[3] - 80 * Unit
        THEN generateCollectibles(s, 3) ELSE s)

\* Game::update, more trees ahead of the player
MoreTrees(g) ==
    Bind(g, LAMBDA s :
        IF s.trees[Len(s.trees)][3] > s.player.position[3] - 150 * Unit
        THEN generateTrees(s, 5) ELSE s)

\* Game::update, more grass ahead of the player
MoreGrass(g) ==
    Bind(g, LAMBDA s :
        IF s.grassPatches[Len(s.grassPatches)][3] > s.player.position[3] - 100 * Unit
        THEN generateGrass(s, 10) ELSE s)

\* An update that does not stop for a paused game
Game_updateWhilePaused(g, deltaTime) ==
    IF g.currentState \notin {"PLAYING", "PAUSED"} THEN g
    ELSE Bind(RotateEnvironment(g, deltaTime), LAMBDA s1 :
         Bind([s1 EXCEPT !.player = MetaBall_update(@, deltaTime, Gravity)], LAMBDA s2 :
         Bind(TerrainCollision(s2), LAMBDA s3 :
         Bind(Progress(s3, deltaTime), LAMBDA s4 :
         Bind(ObstacleLoop(s4, 1), LAMBDA s5 :
         Bind(CollectibleLoop(s5, 1), LAMBDA s6 :
         Bind(CheckGameOver(s6), LAMBDA s7 :
         Bind(updateCamera(s7, deltaTime), LAMBDA s8 :
             MoreGrass(MoreTrees(MoreCollectibles(MoreObstacles(s8))))))))))))

\* Game::update(deltaTime)
Game_update(g, deltaTime) ==
    IF g.currentState # "PLAYING" THEN g
    ELSE Bind(RotateEnvironment(g, deltaTime), LAMBDA s1 :
         Bind([s1 EXCEPT !.player = MetaBall_update(@, deltaTime, Gravity)], LAMBDA s2 :
         Bind(TerrainCollision(s2), LAMBDA s3 :
         Bind(Progress(s3, deltaTime), LAMBDA s4 :
         Bind(ObstacleLoop(s4, 1), LAMBDA s5 :
         Bind(CollectibleLoop(s5, 1), LAMBDA s6 :
         Bind(CheckGameOver(s6), LAMBDA s7 :
         Bind(updateCamera(s7, deltaTime), LAMBDA s8 :
             MoreGrass(MoreTrees(MoreCollectibles(MoreObstacles(s8))))))))))))

\* A pause control that resumes the game from every state but PLAYING
togglePauseFromAnyState(g) ==
    IF g.currentState = "PLAYING"
    THEN [g EXCEPT !.currentState = "PAUSED", !.gamePaused = TRUE]
    ELSE [g EXCEPT !.currentState = "PLAYING", !.gamePaused = FALSE]

\* Game::togglePause()
togglePause(g) ==
    IF g.currentState = "PLAYING"
    THEN [g EXCEPT !.currentState = "PAUSED", !.gamePaused = TRUE]
    ELSE IF g.currentState = "PAUSED"
    THEN [g EXCEPT !.currentState = "PLAYING", !.gamePaused = FALSE]
    ELSE g

\* Game::startGame()
startGame(g) ==
    [resetGame(g) EXCEPT !.currentState = "PLAYING", !.inMenu = FALSE]

\* Game::returnToMenu()
returnToMenu(g) ==
    [g EXCEPT !.currentState = "MENU", !.inMenu = TRUE]

\* The keys that main polls
Keys == {"W", "S", "A", "D", "SPACE", "ESCAPE", "R"}

\* Game::handleInput(key, action)
handleInput(g, key, action) ==
    IF g.currentState = "PLAYING" /\ action = "PRESS"
    THEN LET forceStrength == 15 * Unit
         IN CASE key = "W" -> [g EXCEPT !.player = applyForce(@, <<0, 0, -forceStrength>>)]
              [] key = "S" -> [g EXCEPT !.player = applyForce(@, <<0, 0, forceStrength>>)]
              [] key = "A" -> [g EXCEPT !.player = applyForce(@, <<-forceStrength, 0, 0>>)]
              [] key = "D" -> [g EXCEPT !.player = applyForce(@, <<forceStrength, 0, 0>>)]
              [] key = "SPACE" ->
                    IF g.player.position[2] - g.player.radius
                           <= getHeight(g.terrain, g.player.position[1], g.player.position[3])
                              + Unit \div 10
                    THEN [g EXCEPT !.player.velocity[2] = 8 * Unit]
                    ELSE g
              [] key = "ESCAPE" -> togglePause(g)
              [] key = "R" ->
                    [g EXCEPT !.environmentRotationSpeed =
                        IF @ = 0 THEN Unit \div 10 ELSE 0]
              [] OTHER -> g
    ELSE g

-----------------------------------------------------------------------------
(* The game executable: main and its loop *)

\* The keys found pressed in one frame: none, or one
KeySets == {{}} \cup {{k} : k \in Keys}

\* main, the local variables of the loop
InitGame ==
    /\ gpc = "start"
    /\ game = [currentState |-> "none"]
    /\ loop = [currentTime |-> 0, deltaTime |-> 0, currentGameState |-> "none",
               escLastPress |-> 0, rLastPress |-> 0, frames |-> 0]
    /\ gLast = [op |-> "none", velocityY |-> 0, terrainHeight |-> 0, hit |-> FALSE]

NoObservation(op) == [op |-> op, velocityY |-> 0, terrainHeight |-> 0, hit |-> FALSE]

\* main up to the loop: `Game game;`
GameConstruct ==
    /\ Runs("game") /\ UNCHANGED OutsideGame
    /\ gpc = "start"
    /\ \E seed \in 0..MaxGameSeed : \E s \in {Game(seed)} : game' = s
    /\ gpc' = "input"
    /\ gLast' = NoObservation("Game")
    /\ UNCHANGED loop

\* The key polling of one frame, in the order of main
PollKeys(g, keys, frameLoop) ==
    LET press(s, k) == IF k \in keys THEN handleInput(s, k, "PRESS") ELSE s
        playing == frameLoop.currentGameState = "PLAYING"
    IN Bind(IF playing THEN press(g, "W") ELSE g, LAMBDA s1 :
       Bind(IF playing THEN press(s1, "S") ELSE s1, LAMBDA s2 :
       Bind(IF playing THEN press(s2, "A") ELSE s2, LAMBDA s3 :
       Bind(IF playing THEN press(s3, "D") ELSE s3, LAMBDA s4 :
       Bind(press(s4, "SPACE"), LAMBDA s5 :
       Bind(IF "ESCAPE" \in keys /\ frameLoop.currentTime - frameLoop.escLastPress > (3 * Unit) \div 10
            THEN togglePause(s5) ELSE s5, LAMBDA s6 :
            IF "R" \in keys /\ frameLoop.currentTime - frameLoop.rLastPress > (3 * Unit) \div 10
            THEN handleInput(s6, "R", "PRESS") ELSE s6))))))

\* The head of one iteration of the loop: the delta time, clamped, and the
\* keys
GameFrameInput ==
    /\ Runs("game") /\ UNCHANGED OutsideGame
    /\ gpc = "input"
    /\ loop.frames < MaxGameFrames
    /\ \E elapsed \in FrameTimes, keys \in KeySets :
         \E l \in {[loop EXCEPT !.currentTime = @ + elapsed,
                                !.deltaTime = Min2(elapsed, Unit \div 10),
                                !.currentGameState = game.currentState,
                                !.frames = @ + 1]} :
           /\ \E s \in {PollKeys(game, keys, l)} : game' = s
           /\ loop' = [l EXCEPT
                  !.escLastPress = IF "ESCAPE" \in keys /\ l.currentTime - @ > (3 * Unit) \div 10
                                   THEN l.currentTime ELSE @,
                  !.rLastPress = IF "R" \in keys /\ l.currentTime - @ > (3 * Unit) \div 10
                                 THEN l.currentTime ELSE @]
    /\ gpc' = "update"
    /\ gLast' = NoObservation("input")

\* game.update(deltaTime); gLast keeps what the terrain test of the step saw:
\* the vertical velocity after the integration, the terrain height under the
\* ball and the outcome of the test
GameFrameUpdate ==
    /\ Runs("game") /\ UNCHANGED OutsideGame
    /\ gpc = "update"
    /\ \E s \in {Game_update(game, loop.deltaTime)} : game' = s
    /\ gLast' =
         IF game.currentState # "PLAYING" \/ ~game.player.isAlive THEN NoObservation("update")
         ELSE Bind(MetaBall_update(game.player, loop.deltaTime, Gravity), LAMBDA moved :
              Bind(getHeight(game.terrain, moved.position[1], moved.position[3]), LAMBDA h :
                  [op |-> "update",
                   velocityY |-> Integrate(game.player, loop.deltaTime, Gravity).velocity[2],
                   terrainHeight |-> h,
                   hit |-> moved.position[2] - moved.radius < h]))
    /\ gpc' = "gui"
    /\ UNCHANGED loop

\* The GUI of the frame with no button pressed
GameGuiIdle ==
    /\ Runs("game") /\ UNCHANGED OutsideGame
    /\ gpc = "gui"
    /\ gpc' = "input"
    /\ gLast' = NoObservation("gui")
    /\ UNCHANGED <<game, loop>>

\* START GAME (menu) and PLAY AGAIN (game over)
GameStartButton ==
    /\ Runs("game") /\ UNCHANGED OutsideGame
    /\ gpc = "gui"
    /\ loop.currentGameState \in {"MENU", "GAME_OVER"}
    /\ \E s \in {startGame(game)} : game' = s
    /\ gpc' = "input"
    /\ gLast' = NoObservation("startGame")
    /\ UNCHANGED loop

\* RESUME (paused)
GameResumeButton ==
    /\ Runs("game") /\ UNCHANGED OutsideGame
    /\ gpc = "gui"
    /\ loop.currentGameState = "PAUSED"
    /\ game' = togglePause(game)
    /\ gpc' = "input"
    /\ gLast' = NoObservation("togglePause")
    /\ UNCHANGED loop

\* MAIN MENU (paused, game over)
GameMenuButton ==
    /\ Runs("game") /\ UNCHANGED OutsideGame
    /\ gpc = "gui"
    /\ loop.currentGameState \in {"PAUSED", "GAME_OVER"}
    /\ game' = returnToMenu(game)
    /\ gpc' = "input"
    /\ gLast' = NoObservation("returnToMenu")
    /\ UNCHANGED loop

\* EXIT (menu), or the window is closed
GameExit ==
    /\ Runs("game") /\ UNCHANGED OutsideGame
    /\ gpc = "gui"
    /\ gpc' = "exited"
    /\ gLast' = NoObservation("exit")
    /\ UNCHANGED <<game, loop>>

NextGame ==
    \/ GameConstruct
    \/ GameFrameInput
    \/ GameFrameUpdate
    \/ GameGuiIdle
    \/ GameStartButton
    \/ GameResumeButton
    \/ GameMenuButton
    \/ GameExit

-----------------------------------------------------------------------------
(* Game::update called on a game in play.  The obstacle and the collectible *)
(* of the track at z = -30 lie where generateObstacles and                  *)
(* generateCollectibles can draw them; the ball stands on that stretch of   *)
(* the track, with the health that earlier calls of takeDamage left it.     *)

\* An obstacle as generateObstacles draws its first one (x in [-1.5, 1.5),
\* height in [0.5, 2.5), damage in [10, 20))
ArenaObstacles ==
    [position : {<<0, 0, -30 * Unit>>}, width : {Unit}, height : {Unit, 2 * Unit},
     depth : {Unit}, damage : {10 * Unit, 15 * Unit}, isActive : {TRUE}]

\* A collectible as generateCollectibles draws its second one (x in [-3, 3),
\* y in [1, 3))
ArenaCollectibles ==
    {<<x, y, -30 * Unit>> : x \in {Unit \div 2, 2 * Unit}, y \in {Unit, 2 * Unit}}

\* Where the ball stands
ArenaPositions ==
    {<<0, y, z>> : y \in {Unit, 2 * Unit}, z \in {-30 * Unit, -25 * Unit}}

\* The damage the ball has taken before
ArenaDamages == {0, 60 * Unit, 90 * Unit}

\* Game::update up to the end of the loop over the obstacles
UpdateToObstacles(g, deltaTime) ==
    Bind(RotateEnvironment(g, deltaTime), LAMBDA s1 :
    Bind([s1 EXCEPT !.player = MetaBall_update(@, deltaTime, Gravity)], LAMBDA s2 :
    Bind(TerrainCollision(s2), LAMBDA s3 :
    Bind(Progress(s3, deltaTime), LAMBDA s4 : ObstacleLoop(s4, 1)))))

\* What of a game the collisions can change
Affected(g) ==
    [player |-> g.player, score |-> g.score, collectibles |-> g.collectibles,
     obstacles |-> g.obstacles]

InitArena ==
    /\ arena = [currentState |-> "none"]
    /\ arenaMid = [currentState |-> "none"]
    /\ arenaCalls = 0

\* `Game game; game.startGame();`, the track and the ball as described above
ArenaStart ==
    /\ Runs("update") /\ UNCHANGED OutsideArena
    /\ arena.currentState = "none"
    /\ \E seed \in 0..MaxGameSeed, obs \in ArenaObstacles, col \in ArenaCollectibles,
          pos \in ArenaPositions :
         \E g \in {startGame(Game(seed))} :
            arena' = [g EXCEPT !.obstacles[1] = obs, !.collectibles[2] = col,
                               !.player.position = pos]
    /\ UNCHANGED <<arenaMid, arenaCalls>>

\* game.getPlayer().takeDamage(damage)
ArenaTakeDamage ==
    /\ Runs("update") /\ UNCHANGED OutsideArena
    /\ arena.currentState = "PLAYING"
    /\ arenaCalls = 0
    /\ arena.player.health = 100 * Unit
    /\ \E damage \in ArenaDamages \ {0} :
         arena' = [arena EXCEPT !.player = takeDamage(@, damage)]
    /\ UNCHANGED <<arenaMid, arenaCalls>>

\* game.update(deltaTime)
ArenaUpdate ==
    /\ Runs("update") /\ UNCHANGED OutsideArena
    /\ arena.currentState \in {"PLAYING", "GAME_OVER"}
    /\ arenaCalls < MaxUpdates
    /\ arenaCalls' = arenaCalls + 1
    /\ \E deltaTime \in FrameTimes :
         /\ \E s \in {Game_update(arena, deltaTime)} : arena' = s
         /\ \E m \in {IF arena.currentState = "PLAYING"
                      THEN Affected(UpdateToObstacles(arena, deltaTime))
                      ELSE Affected(arena)} :
              arenaMid' = m

NextArena ==
    \/ ArenaStart
    \/ ArenaTakeDamage
    \/ ArenaUpdate

-----------------------------------------------------------------------------
(* Mat4 (main.cpp, load_obj_model.cpp, sdl_rotating_cube.cpp): float m[16], *)
(* here m[0..15] as the sequence elements 1..16.  The entries and the       *)
(* coordinates of the points are whole numbers, for which the float         *)
(* arithmetic of the code is exact.                                          *)

\* Mat4::identity()
identity == [n \in 1..16 |-> IF n \in {1, 6, 11, 16} THEN 1 ELSE 0]

\* Mat4::translate(x, y, z)
translate(x, y, z) == [identity EXCEPT ![13] = x, ![14] = y, ![15] = z]

\* Mat4::scale(x, y, z)
scale(x, y, z) == [identity EXCEPT ![1] = x, ![6] = y, ![11] = z]

\* A product that reads other.m[j * 4 + k] where operator* reads
\* other.m[k * 4 + j]
Mat4TimesTransposed(this, other) ==
    [n \in 1..16 |->
        LET i == (n - 1) \div 4
            j == (n - 1) % 4
        IN this[i * 4 + 1] * other[j * 4 + 1]
           + this[i * 4 + 2] * other[j * 4 + 2]
           + this[i * 4 + 3] * other[j * 4 + 3]
           + this[i * 4 + 4] * other[j * 4 + 4]]

\* Mat4::operator*: result.m[i * 4 + j] is the sum over k of
\* m[i * 4 + k] * other.m[k * 4 + j]
Mat4Times(this, other) ==
    [n \in 1..16 |->
        LET i == (n - 1) \div 4
            j == (n - 1) % 4
        IN this[i * 4 + 1] * other[j + 1]
           + this[i * 4 + 2] * other[4 + j + 1]
           + this[i * 4 + 3] * other[8 + j + 1]
           + this[i * 4 + 4] * other[12 + j + 1]]

\* vec3(model * vec4(aPos, 1.0)) of the vertex shader, the matrix uploaded by
\* glUniformMatrix4fv(loc, 1, GL_FALSE, matrix.m): m[c * 4 + r] is the entry
\* of row r and column c
Transform(m, aPos) ==
    [r \in 1..3 |->
        m[r] * aPos[1] + m[4 + r] * aPos[2] + m[8 + r] * aPos[3] + m[12 + r]]

\* The matrices of the factories, and the points, that the model follows
MatVectors == {<<1, 2, 3>>, <<2, 2, 2>>, <<-2, 0, 5>>}
Mat4Factories ==
    {translate(t[1], t[2], t[3]) : t \in MatVectors}
        \cup {scale(s[1], s[2], s[3]) : s \in MatVectors}
\* The matrices a product is taken of: those of the factories, the identity
\* (the default Mat4), and one with sixteen different entries
Mat4Inputs ==
    Mat4Factories \cup {identity, [n \in 1..16 |-> n * n - 5 * n]}
MatPoints == {<<0, 0, 0>>, <<1, 0, 0>>, <<1, 1, 1>>, <<-3, 2, 7>>}

\* The obstacles whose model matrix is drawn: whole positions and extents,
\* even heights (height/2 is exact)
ObstacleBoxes ==
    [position : {<<0, 0, 0>>, <<1, 0, -30>>, <<-1, 2, -45>>},
     width : {1, 2}, height : {2, 4}, depth : {1, 3}]
NoObstacle == [position |-> <<0, 0, 0>>, width |-> 0, height |-> 0, depth |-> 0]

\* Obstacle::getModelMatrix()
Obstacle_getModelMatrix(o) ==
    LET model == translate(o.position[1], o.position[2] + o.height \div 2, o.position[3])
    IN Mat4Times(model, scale(o.width, o.height, o.depth))

InitMat ==
    /\ mpc = "start"
    /\ matA = identity
    /\ matB = identity
    /\ matAB = identity
    /\ matPoint = <<0, 0, 0>>
    /\ matImage = <<0, 0, 0>>
    /\ matObstacle = NoObstacle

\* Mat4 AB = A * B;
MatProduct ==
    /\ Runs("Mat4") /\ UNCHANGED OutsideMat
    /\ mpc = "start"
    /\ \E A \in Mat4Inputs, B \in Mat4Inputs :
         /\ matA' = A
         /\ matB' = B
         /\ matAB' = Mat4Times(A, B)
    /\ mpc' = "product"
    /\ matObstacle' = NoObstacle
    /\ UNCHANGED <<matPoint, matImage>>

\* Mat4 obstacleModel = obs.getModelMatrix();
MatObstacle ==
    /\ Runs("Mat4") /\ UNCHANGED OutsideMat
    /\ mpc = "start"
    /\ \E obs \in ObstacleBoxes :
         /\ matObstacle' = obs
         /\ matA' = translate(obs.position[1], obs.position[2] + obs.height \div 2,
                              obs.position[3])
         /\ matB' = scale(obs.width, obs.height, obs.depth)
         /\ matAB' = Obstacle_getModelMatrix(obs)
    /\ mpc' = "product"
    /\ UNCHANGED <<matPoint, matImage>>

\* The product drawn as the model matrix of a vertex at aPos
MatTransform ==
    /\ Runs("Mat4") /\ UNCHANGED OutsideMat
    /\ mpc = "product"
    /\ \E aPos \in MatPoints :
         /\ matPoint' = aPos
         /\ matImage' = Transform(matAB, aPos)
    /\ mpc' = "point"
    /\ UNCHANGED <<matA, matB, matAB, matObstacle>>

NextMat ==
    \/ MatProduct
    \/ MatObstacle
    \/ MatTransform

------------------------------------------------------------------------------
(* The public methods of Game, called in any order on one game *)

\* The keys and the actions handleInput is called with
ApiKeys == {"W", "SPACE", "ESCAPE", "R"}
ApiActions == {"PRESS", "RELEASE"}

\* The damage the ball takes before the calls (none, or all of its health)
ApiDamages == {0, 100 * Unit}

\* A call of the game's interface
Call(name, key, action, deltaTime) ==
    [name |-> name, key |-> key, action |-> action, deltaTime |-> deltaTime]

InitApi ==
    /\ api = [currentState |-> "none"]
    /\ apiBefore = [currentState |-> "none"]
    /\ apiCall = Call("none", "none", "none", 0)
    /\ apiCalls = 0

\* `Game game;`, and what the ball has suffered through getPlayer()
ApiConstruct ==
    /\ Runs("Game") /\ UNCHANGED OutsideApi
    /\ api.currentState = "none"
    /\ \E seed \in 0..MaxGameSeed, damage \in ApiDamages :
         \E g \in {Game(seed)} :
            api' = IF damage = 0 THEN g
                   ELSE [g EXCEPT !.player = takeDamage(@, damage)]
    /\ apiCall' = Call("Game", "none", "none", 0)
    /\ UNCHANGED <<apiBefore, apiCalls>>

\* One more call on the game: the state before it is remembered
ApiCalled(call, after) ==
    /\ Runs("Game") /\ UNCHANGED OutsideApi
    /\ api.currentState # "none"
    /\ apiCalls < MaxApiCalls
    /\ apiCalls' = apiCalls + 1
    /\ apiBefore' = api
    /\ apiCall' = call
    /\ api' = after

\* game.startGame()
ApiStartGame ==
    \E s \in {startGame(api)} : ApiCalled(Call("startGame", "none", "none", 0), s)

\* game.togglePause()
ApiTogglePause ==
    \E s \in {togglePause(api)} : ApiCalled(Call("togglePause", "none", "none", 0), s)

\* game.returnToMenu()
ApiReturnToMenu ==
    \E s \in {returnToMenu(api)} : ApiCalled(Call("returnToMenu", "none", "none", 0), s)

\* game.update(deltaTime)
ApiUpdate ==
    \E deltaTime \in FrameTimes :
        \E s \in {Game_update(api, deltaTime)} :
            ApiCalled(Call("update", "none", "none", deltaTime), s)

\* game.handleInput(key, action)
ApiHandleInput ==
    \E key \in ApiKeys, action \in ApiActions :
        \E s \in {handleInput(api, key, action)} :
            ApiCalled(Call("handleInput", key, action, 0), s)

NextApi ==
    \/ ApiConstruct
    \/ ApiStartGame
    \/ ApiTogglePause
    \/ ApiReturnToMenu
    \/ ApiUpdate
    \/ ApiHandleInput

------------------------------------------------------------------------------
(* The mouse in the model viewer: the GLFW callbacks and the hover flag *)

\* GLFW_MOUSE_BUTTON_LEFT, _RIGHT, _MIDDLE
MouseButtons == {0, 1, 2}

\* Where the cursor can be (window coordinates, pixels)
CursorPositions == {<<0, 0>>, <<40, 0>>, <<0, 40>>}

InitMouse ==
    /\ isMouseDragging = FALSE
    /\ dragButton = -1
    /\ isViewportHovered = FALSE
    /\ lastMousePos = <<0, 0>>
    /\ cameraYaw = 0
    /\ cameraPitch = (3 * Unit) \div 10
    /\ buttonsHeld = {}
    /\ cursor = <<0, 0>>

\* What a mouse event leaves alone in the viewer
MouseEvent ==
    /\ Runs("viewer") /\ UNCHANGED OutsideMouse
    /\ UserStep
    /\ lastOp' = [op |-> "other", ret |-> TRUE]
    /\ UNCHANGED <<vpc, objects, selectedObjectIndex, cameraDistance, glVaos, glBufs,
                   relVaos, relBufs, doubleFree, glOther, isViewportHovered>>

\* showViewport of a frame: isViewportHovered = ImGui::IsWindowHovered(),
\* whether the cursor is over the viewport window now
ShowViewport ==
    /\ Runs("viewer") /\ UNCHANGED OutsideMouse
    /\ vpc = "running"
    /\ \E hovered \in BOOLEAN : isViewportHovered' = hovered
    /\ UNCHANGED <<viewerVars, isMouseDragging, dragButton, lastMousePos, cameraYaw,
                   cameraPitch, buttonsHeld, cursor>>

\* mouse_button_callback(window, button, GLFW_PRESS, mods)
MousePress ==
    /\ MouseEvent
    /\ \E button \in MouseButtons \ buttonsHeld :
         /\ buttonsHeld' = buttonsHeld \cup {button}
         /\ IF isViewportHovered /\ button \in {0, 1}
            THEN /\ isMouseDragging' = TRUE
                 /\ dragButton' = button
                 /\ lastMousePos' = cursor
            ELSE UNCHANGED <<isMouseDragging, dragButton, lastMousePos>>
    /\ UNCHANGED <<cameraTarget, cameraYaw, cameraPitch, cursor>>

\* mouse_button_callback(window, button, GLFW_RELEASE, mods)
MouseRelease ==
    /\ MouseEvent
    /\ \E button \in buttonsHeld :
         /\ buttonsHeld' = buttonsHeld \ {button}
         /\ IF isViewportHovered /\ button \in {0, 1}
            THEN /\ isMouseDragging' = FALSE
                 /\ dragButton' = -1
            ELSE UNCHANGED <<isMouseDragging, dragButton>>
    /\ UNCHANGED <<cameraTarget, cameraYaw, cameraPitch, cursor, lastMousePos>>

\* cursor_pos_callback(window, xpos, ypos)
CursorMove ==
    /\ MouseEvent
    /\ \E pos \in CursorPositions \ {cursor} :
         /\ cursor' = pos
         /\ IF ~isMouseDragging \/ ~isViewportHovered
            THEN UNCHANGED <<cameraYaw, cameraPitch, cameraTarget, lastMousePos>>
            ELSE LET delta == <<pos[1] - lastMousePos[1], pos[2] - lastMousePos[2]>>
                     panSpeed == TruncDiv(cameraDistance * 2, Unit)
                     maxPitch == Pi \div 2 - Unit \div 10
                 IN /\ lastMousePos' = pos
                    /\ IF dragButton = 0
                       THEN /\ cameraYaw' = cameraYaw - delta[1] * (Unit \div 100)
                            /\ cameraPitch' =
                                  Max2(-maxPitch,
                                       Min2(maxPitch, cameraPitch - delta[2] * (Unit \div 100)))
                            /\ UNCHANGED cameraTarget
                       ELSE IF dragButton = 1
                       THEN /\ cameraTarget' =
                                  [cameraTarget EXCEPT ![1] = @ - delta[1] * panSpeed,
                                                       ![2] = @ + delta[2] * panSpeed]
                            /\ UNCHANGED <<cameraYaw, cameraPitch>>
                       ELSE UNCHANGED <<cameraYaw, cameraPitch, cameraTarget>>
    /\ UNCHANGED <<isMouseDragging, dragButton, buttonsHeld>>

NextMouse ==
    \/ Startup
    \/ ShowViewport
    \/ MousePress
    \/ MouseRelease
    \/ CursorMove

------------------------------------------------------------------------------
(* Vec3::normalize of each program that defines a Vec3 *)

\* load_obj_model.cpp Vec3::normalize: the vector itself when it has no length
Obj_normalize(a) ==
    Bind(length(a), LAMBDA l : IF l > 0 THEN VecDiv(a, l) ELSE a)

\* sdl_rotating_cube.cpp Vec3::normalize: the vector itself when it has no length
Sdl_normalize(a) ==
    Bind(length(a), LAMBDA l : IF l > 0 THEN VecDiv(a, l) ELSE a)

\* The vectors normalize is called on
NormalizeCoords == {-Unit, 0, 1, Unit \div 2, 3 * Unit}
NormalizeInputs == NormalizeCoords \X NormalizeCoords \X NormalizeCoords

InitVec ==
    /\ nImpl = "none"
    /\ nIn = <<0, 0, 0>>
    /\ nOut = <<0, 0, 0>>

\* v.normalize() with the Vec3 of main.cpp
NormalizeMain ==
    /\ Runs("normalize") /\ UNCHANGED OutsideVec
    /\ nImpl = "none"
    /\ \E v \in NormalizeInputs :
        /\ nIn' = v
        /\ nOut' = normalize(v)
    /\ nImpl' = "main.cpp"

\* v.normalize() with the Vec3 of load_obj_model.cpp
NormalizeObj ==
    /\ Runs("normalize") /\ UNCHANGED OutsideVec
    /\ nImpl = "none"
    /\ \E v \in NormalizeInputs :
        /\ nIn' = v
        /\ nOut' = Obj_normalize(v)
    /\ nImpl' = "load_obj_model.cpp"

\* v.normalize() with the Vec3 of sdl_rotating_cube.cpp
NormalizeSdl ==
    /\ Runs("normalize") /\ UNCHANGED OutsideVec
    /\ nImpl = "none"
    /\ \E v \in NormalizeInputs :
        /\ nIn' = v
        /\ nOut' = Sdl_normalize(v)
    /\ nImpl' = "sdl_rotating_cube.cpp"

NextVec ==
    \/ NormalizeMain
    \/ NormalizeObj
    \/ NormalizeSdl

Init ==
    /\ program = "none"
    /\ InitMesh
    /\ InitViewer
    /\ InitObj
    /\ InitHouse
    /\ InitSphere
    /\ InitTerrain
    /\ InitGame
    /\ InitArena
    /\ InitMat
    /\ InitVec
    /\ InitApi
    /\ InitMouse

\* The model viewer
Next == NextViewer
Spec == Init /\ [][Next]_vars

\* The mesh generators, called with every bounded parameter
NextMesh == GenerateFixed \/ GenerateSegmented
SpecMesh == Init /\ [][NextMesh]_vars

\* The OBJ import paths: loadOBJ on a target mesh, and the viewer
NextImport == NextObj \/ NextViewer
SpecImport == Init /\ [][NextImport]_vars

\* OBJLoader::loadOBJ, called on every bounded file
SpecObj == Init /\ [][NextObj]_vars

\* The house viewer
SpecHouse == Init /\ [][NextHouse]_vars

\* The rotating-sphere demo
SpecSphere == Init /\ [][NextSphere]_vars

\* Terrain::getHeight, called at and around the edges of the grid
SpecTerrain == Init /\ [][NextTerrain]_vars

\* The rolling-ball game
SpecGame == Init /\ [][NextGame]_vars

\* Game::update, called on a game whose ball stands among the obstacles
SpecArena == Init /\ [][NextArena]_vars

\* Mat4::operator*, called on the matrices of the translate and scale factories
SpecMat == Init /\ [][NextMat]_vars
SpecVec == Init /\ [][NextVec]_vars
SpecApi == Init /\ [][NextApi]_vars
SpecMouse == Init /\ [][NextMouse]_vars

-----------------------------------------------------------------------------
(* Properties *)

\* C1: for every cube, cone and cylinder generator and every segment count
\* >= 3, the index list has a length divisible by 3 and every index is
\* smaller than the number of vertices produced.  (Violated by the viewer's
\* createCylinder, whose index stride is 6 for 4 vertices per segment.)
C1_IndicesInRange ==
    meshKind \in {"createCube", "createCylinder", "createCone",
                  "generateCube", "generateCylinder"} =>
        /\ Len(meshOut.indices) % 3 = 0
        /\ \A k \in 1..Len(meshOut.indices) : meshOut.indices[k] < meshOut.vertexCount

\* Two entries of the object list hold the same vertex array or buffer name
SharesHandle(a, b) ==
    \/ a.vao # 0 /\ a.vao = b.vao
    \/ (({a.vbo, a.ebo} \cap {b.vbo, b.ebo}) \ {0}) # {}

\* C2: in every reachable state of the viewer no vao, vbo or ebo handle is
\* held by two different entries of the object list.  (Violated by the
\* start-up scene: createPrimitive pushes a second object that copies the
\* handles of the one its shape function pushed.)
C2_ExclusiveHandles ==
    \A i, j \in 1..Len(objects) : i # j => ~SharesHandle(objects[i], objects[j])

\* C3: no glDelete* call of the viewer targets a handle that an earlier delete
\* call already released.  (Violated by the exit cleanup loop and by New
\* Scene, which release the shared handles of C2 once per holder.)
C3_NoDoubleRelease == ~doubleFree

\* C4: after Edit > Duplicate the copy's vao, vbo and ebo differ from the
\* handles of every other object in the list, the source included.
\* (Violated when the source holds a name that the delete of its alias
\* released and the driver hands out again.)
C4_DuplicateFresh ==
    lastOp.op = "duplicate" =>
        \A i \in 1..(Len(objects) - 1) : ~SharesHandle(objects[i], objects[Len(objects)])

\* C5: when the sphere demo's loop ends on a close request, every GL object
\* it generated, those of the mesh regenerations included, has been released
\* before the window goes.  (Violated: setupSphere overwrites the handles of
\* the previous mesh without releasing them.)
C5_AllReleasedAtExit ==
    spc = "exited" => sphereLive = {}

\* C6: a failing OBJ import leaves its target as it was: loadOBJ returning
\* false has not assigned the mesh, and a failing loadOBJModel has added no
\* object and not moved the selection.
C6_FailedImportKeepsTarget ==
    [][/\ (program' = "loadOBJ" /\ objRet' = "false") => objMesh' = objBefore'
       /\ (lastOp'.op = "loadOBJ" /\ ~lastOp'.ret /\ steps' # steps) =>
              /\ objects' = objects
              /\ selectedObjectIndex' = selectedObjectIndex]_vars

\* C6 witness: loadOBJ has returned false on a target mesh that held the
\* vertices of an earlier load
C6_Witness ==
    /\ objRet = "false"
    /\ objBefore.vertices # <<>>
    /\ objMesh = objBefore

\* C7: a failing load of the model file never ends the program: it keeps
\* running (until the user closes it) with the fallback model.  (Violated:
\* the house viewer returns -1 when the file is there but yields no vertices.)
C7_LoadFailureNotFatal ==
    loadFailed => hpc \in {"running", "returned 0"}

\* C8: when loadGLBModel returns false, the object list, the selected index
\* and the camera target/distance are as before the call.  (Violated: it
\* creates the placeholder cube before it returns false.)
C8_GLBFailureKeepsState ==
    [][(lastOp'.op = "loadGLB" /\ ~lastOp'.ret /\ steps' # steps) =>
            /\ objects' = objects
            /\ selectedObjectIndex' = selectedObjectIndex
            /\ cameraTarget' = cameraTarget
            /\ cameraDistance' = cameraDistance]_vars

\* A query point whose grid coordinate is not within the samples
OutsideGrid(x, z) ==
    \/ x + (TerrainWidth \div 2) * Unit < 0
    \/ x + (TerrainWidth \div 2) * Unit > (TerrainWidth - 1) * Unit
    \/ z + (TerrainDepth \div 2) * Unit < 0
    \/ z + (TerrainDepth \div 2) * Unit > (TerrainDepth - 1) * Unit
\* C9: getHeight(x, z) is exactly 0 for every query point outside the grid,
\* on every side: a grid coordinate (x + width/2)/gridSize or
\* (z + depth/2)/gridSize below 0 or beyond the last sample.  (Violated: the
\* cast to int truncates toward zero, so a coordinate in (-1, 0) is taken
\* for cell 0 and the height is extrapolated from its samples.)
C9_ZeroOutsideGrid ==
    (program = "getHeight" /\ OutsideGrid(tQuery[2], tQuery[3])) => tHeight = 0

\* C10: after a Game::update step whose terrain test found the ball below
\* the terrain (position.y - radius < terrainHeight), the ball rests on or
\* above the terrain and its velocity.y is the velocity.y it had before the
\* collision, sign flipped and scaled by the elasticity (the friction
\* factor of the bounce allowed).  (Violated: Game::update sets velocity.y
\* to 0.)
C10_BounceOffTerrain ==
    (gLast.op = "update" /\ gLast.hit) =>
        /\ game.player.position[2] - game.player.radius >= gLast.terrainHeight
        /\ gLast.velocityY < 0 => game.player.velocity[2] > 0
        /\ gLast.velocityY > 0 => game.player.velocity[2] < 0
        /\ \E friction \in {Unit, (95 * Unit) \div 100} :
              Abs(game.player.velocity[2]
                  - MulU(MulU(-gLast.velocityY, game.player.elasticity), friction)) <= 1
\* C10, the part that holds: the ball is put back on the terrain
C10_RestsOnTerrain ==
    (gLast.op = "update" /\ gLast.hit) =>
        game.player.position[2] - game.player.radius >= gLast.terrainHeight

\* C11: the player's isAlive flag always equals (health > 0), after every
\* operation that changes the player's health (takeDamage on an obstacle
\* collision, the health gained with a collectible), in any order within one
\* Game::update.  (Violated: a collectible picked up after the obstacle that
\* killed the ball raises the health above 0 and leaves isAlive false.)
C11_AliveIffHealthy ==
    arena.currentState # "none" =>
        (arena.player.isAlive <=> arena.player.health > 0)

\* C12: once the player's isAlive is false, no obstacle collision and no
\* collectible pickup processed afterwards, in the same Game::update or in a
\* later one, changes its health, its velocity, the score or the list of
\* collectibles.  (Violated: the loop over the collectibles does not look at
\* isAlive.)
C12_DeadBallUntouched ==
    (arenaCalls > 0 /\ ~arenaMid.player.isAlive) =>
        /\ arena.player.health = arenaMid.player.health
        /\ arena.player.velocity = arenaMid.player.velocity
        /\ arena.score = arenaMid.score
        /\ arena.collectibles = arenaMid.collectibles


\* The center of the box that Obstacle::checkCollision clamps to
BoxCenter(obs) ==
    <<obs.position[1], obs.position[2] + TruncDiv(obs.height, 2), obs.position[3]>>

\* The largest half-extent of that box
MaxHalfExtent(obs) ==
    Max2(Max2(TruncDiv(obs.width, 2), TruncDiv(obs.height, 2)), TruncDiv(obs.depth, 2))

\* The ball of the arena, moved to the center of the box of obs and from
\* there by t along the axis
BallAt(obs, axis, t) ==
    [arena.player EXCEPT !.position = [BoxCenter(obs) EXCEPT ![axis] = @ + t]]

\* Translations of more than radius + max(half-extents): just more, and a
\* unit more, to either side
FarOffsets(obs) ==
    LET far == arena.player.radius + MaxHalfExtent(obs)
    IN {far + 1, -(far + 1), far + Unit, -(far + Unit)}

\* checkCollision is false for the ball translated from the center of the
\* box by more than radius + max(half-extents) along any axis
FalseWhenFar(obs) ==
    \A axis \in 1..3 : \A t \in FarOffsets(obs) :
        ~checkCollision(obs, BallAt(obs, axis, t))

\* C20 as stated: Obstacle::checkCollision returns true when the center of
\* the ball coincides with the center of the obstacle's box, and false when
\* the center of the ball is translated from there by more than
\* radius + max(half-extents) along any axis.  (Violated: an obstacle that
\* was hit before is inactive, and checkCollision returns false for it
\* wherever the ball is.)
C20_CenterCollides ==
    arena.currentState # "none" =>
        \A i \in 1..Len(arena.obstacles) :
            /\ checkCollision(arena.obstacles[i], BallAt(arena.obstacles[i], 1, 0))
            /\ FalseWhenFar(arena.obstacles[i])

\* C20, amended: for an active obstacle checkCollision returns true when the
\* center of the ball coincides with the center of the box; for any obstacle
\* it returns false when the ball is translated from there by more than
\* radius + max(half-extents) along any axis; for an inactive obstacle it
\* returns false wherever the ball is.
C20_ActiveCenterCollides ==
    arena.currentState # "none" =>
        \A i \in 1..Len(arena.obstacles) :
            /\ arena.obstacles[i].isActive <=>
                   checkCollision(arena.obstacles[i], BallAt(arena.obstacles[i], 1, 0))
            /\ FalseWhenFar(arena.obstacles[i])

\* The ball of the arena stands at the center of the box of the first
\* obstacle, which is active: checkCollision reports the collision there,
\* and none for the ball lifted by just more than radius + max(half-extents)
C20_Witness ==
    /\ arena.currentState = "PLAYING"
    /\ arena.obstacles[1].isActive
    /\ arena.player.position = BoxCenter(arena.obstacles[1])
    /\ checkCollision(arena.obstacles[1], arena.player)
    /\ ~checkCollision(arena.obstacles[1],
                       [arena.player EXCEPT !.position[2] =
                           @ + arena.player.radius + MaxHalfExtent(arena.obstacles[1]) + 1])

\* handleInput has applied the force of a movement key in this frame: the
\* acceleration of the ball, which every update leaves at gravity, has a
\* horizontal part
MovementKeyApplied ==
    /\ gpc = "update"
    /\ game.currentState = "PLAYING"
    /\ game.player.isAlive
    /\ (game.player.acceleration[1] # 0 \/ game.player.acceleration[3] # 0)

\* C17: while the game is PLAYING the W/A/S/D keys move the ball: the force
\* that handleInput applies for a pressed movement key changes the horizontal
\* velocity of the ball in the Game::update that follows in the same frame.
\* (Violated: MetaBall::update overwrites the acceleration with gravity
\* before it integrates.)
C17_KeysMoveBall ==
    [][(MovementKeyApplied /\ gpc' = "gui") =>
          \/ game'.player.velocity[1] # game.player.velocity[1]
          \/ game'.player.velocity[3] # game.player.velocity[3]]_vars

\* C13: A * B applies B first: with the column-major layout of
\* Mat4::translate (translation in m[12..14]), transforming a point by A * B
\* equals transforming it by B and then by A, for all matrices of the
\* translate and scale factories (translate(t) * scale(s) maps p to
\* s*p + t).  (Violated: operator* multiplies the arrays as row-major
\* matrices, which in the column-major reading is B * A.)
C13_ProductAppliesRightFirst ==
    mpc = "point" => matImage = Transform(matA, Transform(matB, matPoint))

\* C14: in the viewer the distance of the orbit camera always lies within
\* [0.5, 100], in every state reachable by scroll events of any magnitude and
\* sign, create/import, Center All Models, Frame Selection and Reset Camera.
\* (Violated: centerAllModels and autoCenterSelectedModel set the distance
\* to twice the size of the bounding box, and only the updateCamera of the
\* next render brings it back.)
C14_CameraDistanceBounded ==
    vpc = "running" => (cameraDistance >= Unit \div 2 /\ cameraDistance <= 100 * Unit)

\* C15: in the main loop of every demo the frame delta time that is applied
\* to the simulation or the rotation is at most 0.1 s.  (Violated: only the
\* game clamps it; the rotating-sphere demo rotates by rotationSpeed times
\* whatever time has passed since the last frame.)
C15_DeltaTimeClamped ==
    /\ loop.deltaTime <= Unit \div 10
    /\ sphereTime.deltaTime <= Unit \div 10

\* C16: whenever a change of a sphere parameter is detected in a frame
\* (segments, stacks or radius slider, or Reset to Defaults), the sphere mesh
\* is regenerated and uploaded within that same frame, before the draw call
\* of the frame.  (Violated: rotating_cube_1.cpp does not regenerate for the
\* radius slider, so the mesh keeps the radius of the last regeneration.)
C16_RegeneratedInSameFrame ==
    [][sphereParams' # sphereParams => sphereMeshOf' = sphereParams']_vars

\* C18: when an imported OBJ provides no normals, the importer computes the
\* vertex normals by accumulating face normals and re-normalizing per
\* vertex, on every OBJ import path (OBJLoader::loadOBJ and the viewer's
\* loadOBJModel).  (Violated: loadOBJModel gives every vertex without a
\* normal the constant normal (0, 1, 0).)
C18_MissingNormalsComputed ==
    /\ \A i \in 1..Len(objects) : objects[i].normals # "up"
    /\ (objRet = "true" /\ \A n \in 1..Len(objFile.lines) : objFile.lines[n].k # "vn") =>
            \A i \in 1..Len(objMesh.vertices) : objMesh.vertices[i].normal = "computed"

RECURSIVE FaceTriples(_, _)
\* The index list that C19 describes for the face lines of a file, b being
\* the vertex count before the first of them
FaceTriples(lines, b) ==
    IF lines = <<>> THEN <<>>
    ELSE IF Head(lines).k # "f" THEN FaceTriples(Tail(lines), b)
    ELSE IF Head(lines).n = 4
    THEN <<b, b + 1, b + 2, b, b + 2, b + 3>> \o FaceTriples(Tail(lines), b + 4)
    ELSE <<b, b + 1, b + 2>> \o FaceTriples(Tail(lines), b + 3)

\* The number of vertices that C19 describes for the face lines of a file
FaceVertexCount(lines) ==
    LET n(i) == IF lines[i].k # "f" THEN 0 ELSE IF lines[i].n = 4 THEN 4 ELSE 3
        count[i \in 0..Len(lines)] == IF i = 0 THEN 0 ELSE count[i - 1] + n(i)
    IN count[Len(lines)]

\* C19: for an `f` line with four vertices OBJLoader::loadOBJ appends the
\* four vertices and the two index triples (b, b+1, b+2) and (b, b+2, b+3),
\* b being the vertex count before the face; for a face of three vertices it
\* appends three vertices and exactly the triple (b, b+1, b+2).
C19_QuadSplit ==
    objRet = "true" =>
        /\ objMesh.indices = FaceTriples(objFile.lines, 0)
        /\ Len(objMesh.vertices) = FaceVertexCount(objFile.lines)

\* A file with a quad after a triangle was loaded: seven vertices, and the
\* quad's triples start at b = 3
C19_Witness ==
    /\ objRet = "true"
    /\ \E i, j \in 1..Len(objFile.lines) :
          /\ i < j
          /\ objFile.lines[i].k = "f" /\ objFile.lines[i].n = 3
          /\ objFile.lines[j].k = "f" /\ objFile.lines[j].n = 4
    /\ Len(objMesh.vertices) = 7
    /\ objMesh.indices = <<0, 1, 2, 3, 4, 5, 3, 5, 6>>

\* The query point lies inside a cell of the grid: its grid coordinates are
\* at least 0 and below the last sample
InsideCell(x, z) ==
    /\ x + (TerrainWidth \div 2) * Unit >= 0
    /\ x + (TerrainWidth \div 2) * Unit < (TerrainWidth - 1) * Unit
    /\ z + (TerrainDepth \div 2) * Unit >= 0
    /\ z + (TerrainDepth \div 2) * Unit < (TerrainDepth - 1) * Unit

\* The heights of the four corners of the cell of the query point
CornerHeights(seed, x, z) ==
    LET t == Terrain(Generator(seed))
        xi == (x + (TerrainWidth \div 2) * Unit) \div Unit
        zi == (z + (TerrainDepth \div 2) * Unit) \div Unit
    IN {heightMap(t, xi + i, zi + j) : i \in {0, 1}, j \in {0, 1}}

\* C21: for every query point inside a grid cell, Terrain::getHeight returns
\* a value between the minimum and the maximum of the heights of the four
\* corners of that cell (up to the rounding of the six products of the
\* interpolation, less than 0.001 each).
C21_NoOvershoot ==
    (program = "getHeight" /\ InsideCell(tQuery[2], tQuery[3])) =>
        LET corners == CornerHeights(tQuery[1], tQuery[2], tQuery[3])
        IN /\ tHeight >= SetMin(corners) - 6
           /\ tHeight <= SetMax(corners) + 6

\* A query in the interior of a cell whose corners differ: the height
\* returned lies strictly between the lowest and the highest corner
C21_Witness ==
    /\ program = "getHeight"
    /\ InsideCell(tQuery[2], tQuery[3])
    /\ tQuery[2] % Unit # 0
    /\ tQuery[3] % Unit # 0
    /\ LET corners == CornerHeights(tQuery[1], tQuery[2], tQuery[3])
       IN /\ tHeight > SetMin(corners)
          /\ tHeight < SetMax(corners)

\* C22: normalizing a vector of zero length gives the fallback direction
\* (0,1,0) in every Vec3 implementation of the repository.
C22_ZeroNormalizesToUp ==
    (program = "normalize" /\ nImpl # "none" /\ length(nIn) = 0) =>
        nOut = <<0, Unit, 0>>

\* C23: Mat4::identity() * M equals M and M * Mat4::identity() equals M,
\* for every matrix M, with the product of Mat4::operator*.
C23_IdentityNeutral ==
    (program = "Mat4" /\ mpc # "start") =>
        /\ matA = identity => matAB = matB
        /\ matB = identity => matAB = matA

\* The identity was multiplied with a matrix that is not symmetric, and the
\* product is that matrix
C23_Witness ==
    /\ program = "Mat4"
    /\ mpc = "product"
    /\ matA = identity
    /\ matB[2] # matB[5]
    /\ matAB = matB

\* The flags of a game agree with its state
FlagsAgree(g) ==
    /\ g.inMenu <=> g.currentState = "MENU"
    /\ g.gamePaused <=> g.currentState = "PAUSED"
    /\ g.gameOver <=> g.currentState = "GAME_OVER"

\* C24: after construction and after any sequence of startGame, togglePause,
\* returnToMenu and update calls, inMenu is true exactly when currentState is
\* MENU, gamePaused exactly when it is PAUSED and gameOver exactly when it is
\* GAME_OVER.
C24_FlagsAgreeWithState ==
    (program = "Game" /\ api.currentState # "none") => FlagsAgree(api)

\* C25: each createPrimitive call adds exactly one object to the object
\* list: the list grows by one entry, that entry carries the generated name
\* and the colour, and it is the selected object afterwards.
C25_CreateAddsOne ==
    [][(lastOp'.op = "create" /\ steps' # steps) =>
          /\ Len(objects') = Len(objects) + 1
          /\ SubSeq(objects', 1, Len(objects)) = objects
          /\ objects'[Len(objects')].name[2] = Len(objects')
          /\ objects'[Len(objects')].color = "grey"
          /\ selectedObjectIndex' = Len(objects') - 1]_vars

\* C26: for every position and every width, height and depth,
\* Obstacle::getModelMatrix maps the local origin of the mesh to
\* (position.x, position.y + height/2, position.z), the center of the box
\* that checkCollision tests.
C26_OriginAtBoxCenter ==
    (program = "Mat4" /\ mpc = "point" /\ matObstacle # NoObstacle
        /\ matPoint = <<0, 0, 0>>) =>
        matImage = <<matObstacle.position[1],
                     matObstacle.position[2] + matObstacle.height \div 2,
                     matObstacle.position[3]>>

\* C27: in the viewer, isMouseDragging is true only while the mouse button
\* that started the drag is still held (every release of that button ends the
\* drag, whatever the hover state), and dragButton is -1 when no drag is on.
C27_DragOnlyWhileHeld ==
    program = "viewer" =>
        /\ isMouseDragging => dragButton \in buttonsHeld
        /\ ~isMouseDragging => dragButton = -1

\* C28: in the viewer, selectedObjectIndex is always -1 or a valid index
\* into the object list, after any sequence of create, import, duplicate,
\* select, delete (menu, key, context menu) and new-scene operations.
C28_SelectionValid ==
    program = "viewer" =>
        /\ -1 <= selectedObjectIndex
        /\ selectedObjectIndex < Len(objects)

\* The last object of the list was selected and deleted with the Delete key:
\* objects remain and none is selected
C28_Witness ==
    /\ program = "viewer"
    /\ lastOp.op = "deleteKey"
    /\ steps >= 2
    /\ Len(objects) > 0
    /\ selectedObjectIndex = -1

\* C29: togglePause switches PLAYING to PAUSED and PAUSED to PLAYING and
\* changes nothing in MENU or GAME_OVER; so a game in GAME_OVER stays there
\* until startGame or returnToMenu is called.
C29_TogglePause ==
    (program = "Game" /\ apiCalls > 0) =>
        /\ apiCall.name = "togglePause" =>
              CASE apiBefore.currentState = "PLAYING" -> api.currentState = "PAUSED"
                [] apiBefore.currentState = "PAUSED" -> api.currentState = "PLAYING"
                [] OTHER -> api = apiBefore
        /\ (apiBefore.currentState = "GAME_OVER"
               /\ apiCall.name \notin {"startGame", "returnToMenu"}) =>
              api.currentState = "GAME_OVER"

\* togglePause was called on a game that is over, and the game is still over
C29_Witness ==
    /\ program = "Game"
    /\ apiCall.name = "togglePause"
    /\ apiBefore.currentState = "GAME_OVER"
    /\ api.currentState = "GAME_OVER"

\* C30: Game::update leaves the whole game unchanged whenever currentState is
\* not PLAYING, and handleInput changes nothing unless the state is PLAYING and
\* the action is a key press.
C30_NoEffectOutsidePlay ==
    (program = "Game" /\ apiCalls > 0) =>
        /\ (apiCall.name = "update" /\ apiBefore.currentState # "PLAYING") =>
              api = apiBefore
        /\ (apiCall.name = "handleInput"
               /\ (apiBefore.currentState # "PLAYING" \/ apiCall.action # "PRESS")) =>
              api = apiBefore

\* update was called on a paused game that had run before, and nothing of the
\* game has changed
C30_Witness ==
    /\ program = "Game"
    /\ apiCall.name = "update"
    /\ apiBefore.currentState = "PAUSED"
    /\ apiBefore.environmentRotation > 0
    /\ api = apiBefore

====
